---------------------------- MODULE Spec2Model ----------------------------
(***************************************************************************)
(* Model of the agent orchestration layer of living_entity:                *)
(*   - BrainAgent.run_loop / process / _process_task / _execute_action /   *)
(*     _handle_continuation / _handle_failure / _record_action             *)
(*     (living_entity/agents/brain.py), wired as LivingCore wires it       *)
(*     (living_entity/core.py: the ToolRegistry, the FunctionExecutor and  *)
(*     the Brain all deliver user messages to LivingCore._handle_output);  *)
(*   - AbstractAgent._request_with_retry (living_entity/agents/abstract.py)*)
(*   - LivingCore (living_entity/core.py): construction, start, stop,      *)
(*     input_signal, on_action, the relay of Brain actions to the Spirit,  *)
(*     register_tool and rebuild_tool_prompts.                             *)
(***************************************************************************)
EXTENDS Integers, Sequences, FiniteSets, TLC

(***************************************************************************)
(* Bounds of the model.                                                    *)
(***************************************************************************)
\* number of thoughts the Spirit side puts on the thought stream
MaxCommands == 3
\* number of LLM requests the Brain issues in one run
MaxRequests == 4
\* number of think() requests made on the request layer in one run
MaxThinks == 2
\* number of start() calls that launch loop tasks
MaxStarts == 2
\* number of signals accepted on the Spirit's signal queue
MaxSignals == 2
\* number of thoughts the Spirit loop puts on the thought stream
MaxCoreCommands == 1

(***************************************************************************)
(* Program constants.                                                      *)
(***************************************************************************)
MAX_RETRIES == 3
BASE_RETRY_DELAY == 1
DEFAULT_RATE_LIMIT_WAIT == 60

VARIABLES
    \* ---- BrainAgent ----
    thought_stream,    \* asyncio.Queue shared with Spirit (FIFO)
    put_count,         \* how many thoughts have been put on the stream
    current_thought,   \* BrainAgent._current_thought
    current_task,      \* BrainAgent._current_task
    task_context,      \* BrainAgent._task_context ("" or non-empty)
    action_history,    \* BrainAgent._action_history
    bpc,               \* position of the run_loop coroutine
    requests,          \* number of think() requests issued by the Brain
    log,               \* lifecycle lines written by the Brain's logger
    delivered,         \* texts received by the registered output callback
    \* ---- AbstractAgent._request_with_retry ----
    rpc,               \* position inside _request_with_retry
    attempt,           \* loop variable of "for attempt in range(MAX_RETRIES)"
    calls,             \* outcomes of the completion calls of this request
    sleeps,            \* durations passed to asyncio.sleep in this request
    _history,          \* AbstractAgent._history
    thinks,            \* number of think() requests made so far
    \* ---- LivingCore: start, stop, input_signal, on_action ----
    core_running,      \* LivingCore._running
    spirit_running,    \* SpiritAgent._running
    spirit_tasks,      \* status of every Spirit loop task created by start()
    brain_tasks,       \* position of every Brain loop task created by start()
    _spirit_task,      \* LivingCore._spirit_task (index, 0 for None)
    _brain_task,       \* LivingCore._brain_task (index, 0 for None)
    stop_pc,           \* position of the stop() coroutine in progress
    stop_target,       \* the task stop() is awaiting
    stop_gen,          \* how many loop tasks of each kind existed when stop() began
    _signal_queue,     \* SpiritAgent._signal_queue
    signal_count,      \* how many input signals have been accepted
    sweeps,            \* calls of MemoryMatrix.check_and_cleanup
    persists,          \* calls of MemoryMatrix.persist
    _on_action,        \* BrainAgent._on_action
    last_call,         \* the latest call on the LivingCore API, its arguments
                       \* and how it returned; .n is the parity of the call count
    \* ---- two runs of one Brain step that differ in the reasoning text ----
    relay_in,          \* the parsed reply and the two reasoning texts
    relay_out,         \* per run: the line logged and the Signal relayed
    \* ---- LivingCore: tools and the Brain's system prompt ----
    _tools,            \* ToolRegistry._tools, in insertion order
    _system_prompt,    \* BrainAgent._system_prompt, as a sequence of parts
    _personality_prompt_addition,   \* LivingCore._personality_prompt_addition
    personality_count, \* calls of set_personality so far
    \* ---- LivingCore.__init__ ----
    system_params,     \* the system_params argument (floats in tenths)
    params,            \* LivingCore.params
    init_pc,           \* how far __init__ has come, or the exception it raised
    brain_stream,      \* BrainAgent._thought_stream
    \* ---- AbstractAgent._extract_wait_time on its own ----
    wait_in,           \* the error text it is given
    wait_out,          \* what it returned (NotCalled before the call)
    \* ---- BrainAgent._record_action on its own ----
    ring_history,      \* BrainAgent._action_history
    ring_on_action,    \* BrainAgent._on_action ("None" or the callback)
    ring_recorded,     \* every Action given to _record_action, in order
    ring_passed,       \* every Action the registered callback was called with
    \* ---- the signal path into the Deliberation Agent ----
    signal_queue,      \* SpiritAgent._signal_queue
    relay_tasks,       \* receive_signal tasks created by the relay, not yet run
    signals_enqueued,  \* every Signal put on the queue, in the order of the puts
    signals_dequeued,  \* every Signal the Deliberation Agent took, in order
    \* ---- FocusModule ----
    focus_tasks,       \* the focus tasks created by FocusModule.create_task
    \* ---- FunctionExecutor.execute_async and the output callback ----
    exec_threads,      \* the worker threads running FunctionExecutor.execute
    loop_pc,           \* where the Brain's step is, on the event-loop thread
    awaited,           \* the worker thread execute_async is awaiting (0: none)
    loop_pending,      \* texts the Brain's step has still to pass to the callback
    steps_begun,       \* Brain steps begun so far
    _user_messages,    \* FunctionExecutor._user_messages (one list per Executor)
    _files_created,    \* FunctionExecutor._files_created
    _task_ended,       \* FunctionExecutor._task_ended
    exec_result,       \* what execute_async returned last, and for which thread
    \* ---- AbstractAgent.parse_json_response on its own ----
    json_in,           \* the response text and the fence it is wrapped in
    json_out,          \* what parse_json_response returned for the text as given
    json_unwrapped,    \* what it returned for the text without the fence
    \* ---- BrainAgent._process_task: the correction round-trip ----
    malformed,         \* local `response` (l.217) while its correction is awaited
    correction_request,\* the prompt passed to think() at l.240
    \* ---- memory/matrix.py ----
    CHROMADB_AVAILABLE,\* module flag: "import chromadb" succeeded
    \* ---- InsightModule ----
    insight_tasks,     \* InsightModule._tasks: the status of each problem, by id
    _task_queue,       \* asyncio.Queue of task ids
    _pending_queue,    \* ids submitted while the module was not running
    queue_tasks,       \* _queue_task coroutines created and not yet run
    insight_running,   \* InsightModule._running
    processors,        \* the _background_processor tasks ever created
    \* ---- FocusModule ----
    _tasks,            \* FocusModule._tasks: the FocusTask of each id (ids 1, 2, ...)
    focus_queue,       \* FocusModule._task_queue
    max_concurrent_tasks, \* the constructor argument
    now,               \* datetime.now(): advances with every call
    task_complete_calls,  \* how often _on_task_complete was called, per task
    focus_call,        \* the last call of a FocusModule method
    \* ---- MemoryMatrix._perform_cleanup ----
    cleanup_in,        \* the stored memories and the date of the cleanup
    cleanup_out,       \* the memories left after the cleanup
    cleaned,           \* _perform_cleanup has run
    \* ---- FunctionExecutor._validate_code and execute ----
    sandbox_in,        \* the code passed to execute and the Executor's unsafe_mode
    sandbox_out,       \* the ExecutionResult and what the code did
    sandbox_done       \* execute has returned

brainVars == <<thought_stream, put_count, current_thought, current_task,
               task_context, action_history, bpc, requests, log, delivered>>
retryVars == <<rpc, attempt, calls, sleeps, _history, thinks>>
coreVars == <<core_running, spirit_running, spirit_tasks, brain_tasks,
              _spirit_task, _brain_task, stop_pc, stop_target, stop_gen,
              _signal_queue, signal_count, sweeps, persists, _on_action, last_call>>
relayVars == <<relay_in, relay_out>>
toolVars == <<_tools, _system_prompt, _personality_prompt_addition, personality_count>>
initVars == <<system_params, params, init_pc, brain_stream>>
waitVars == <<wait_in, wait_out>>
ringVars == <<ring_history, ring_on_action, ring_recorded, ring_passed>>
signalVars == <<signal_queue, relay_tasks, signals_enqueued, signals_dequeued>>
focusVars == <<focus_tasks>>
execVars == <<exec_threads, loop_pc, awaited, loop_pending, steps_begun,
              _user_messages, _files_created, _task_ended, exec_result>>
jsonVars == <<json_in, json_out, json_unwrapped>>
promptVars == <<malformed, correction_request>>
memoryVars == <<CHROMADB_AVAILABLE>>
insightVars == <<insight_tasks, _task_queue, _pending_queue, queue_tasks, insight_running, processors>>
moduleVars == <<_tasks, focus_queue, max_concurrent_tasks, now, task_complete_calls, focus_call>>
cleanupVars == <<cleanup_in, cleanup_out, cleaned>>
sandboxVars == <<sandbox_in, sandbox_out, sandbox_done>>
vars == <<brainVars, retryVars, coreVars, relayVars, toolVars,
         initVars, waitVars, ringVars, signalVars, focusVars, execVars, jsonVars, promptVars, memoryVars, insightVars, moduleVars, cleanupVars, sandboxVars>>

\* what the actions of one component leave alone
notBrainVars == <<retryVars, coreVars, relayVars, toolVars,
    initVars, waitVars, ringVars, signalVars, focusVars, execVars, jsonVars, promptVars, memoryVars, insightVars, moduleVars, cleanupVars, sandboxVars>>
notRetryVars == <<brainVars, coreVars, relayVars, toolVars,
    initVars, waitVars, ringVars, signalVars, focusVars, execVars, jsonVars, promptVars, memoryVars, insightVars, moduleVars, cleanupVars, sandboxVars>>
notCoreVars == <<retryVars, relayVars, toolVars, initVars,
    waitVars, ringVars, signalVars, focusVars, execVars, jsonVars, promptVars, memoryVars, insightVars, moduleVars, cleanupVars, sandboxVars>>
notRelayVars == <<brainVars, retryVars, coreVars, toolVars,
    initVars, waitVars, ringVars, signalVars, focusVars, execVars, jsonVars, promptVars, memoryVars, insightVars, moduleVars, cleanupVars, sandboxVars>>
notToolVars == <<brainVars, retryVars, relayVars, initVars,
    waitVars, ringVars, signalVars, focusVars, execVars, jsonVars, promptVars, memoryVars, insightVars, moduleVars, cleanupVars, sandboxVars>>
notInitVars == <<brainVars, retryVars, coreVars, relayVars,
    toolVars, waitVars, ringVars, signalVars, focusVars, execVars, jsonVars, promptVars, memoryVars, insightVars, moduleVars, cleanupVars, sandboxVars>>
notWaitVars == <<brainVars, retryVars, coreVars, relayVars,
    toolVars, initVars, ringVars, signalVars, focusVars, execVars, jsonVars, promptVars, memoryVars, insightVars, moduleVars, cleanupVars, sandboxVars>>
notRingVars == <<brainVars, retryVars, coreVars, relayVars,
    toolVars, initVars, waitVars, signalVars, focusVars, execVars, jsonVars, promptVars, memoryVars, insightVars, moduleVars, cleanupVars, sandboxVars>>
notSignalVars == <<brainVars, retryVars, coreVars, relayVars,
    toolVars, initVars, waitVars, ringVars, focusVars, execVars, jsonVars, promptVars, memoryVars, insightVars, moduleVars, cleanupVars, sandboxVars>>
notFocusVars == <<brainVars, retryVars, coreVars, relayVars,
    toolVars, initVars, waitVars, ringVars, signalVars, execVars, jsonVars, promptVars, memoryVars, insightVars, moduleVars, cleanupVars, sandboxVars>>
notExecVars == <<brainVars, retryVars, coreVars, relayVars,
    toolVars, initVars, waitVars, ringVars, signalVars, focusVars, jsonVars, promptVars, memoryVars, insightVars, moduleVars, cleanupVars, sandboxVars>>
notJsonVars == <<brainVars, retryVars, coreVars, relayVars,
    toolVars, initVars, waitVars, ringVars, signalVars, focusVars, execVars, promptVars, memoryVars, insightVars, moduleVars, cleanupVars, sandboxVars>>
notInsightVars == <<brainVars, retryVars, coreVars, relayVars,
    toolVars, initVars, waitVars, ringVars, signalVars, focusVars, execVars, jsonVars, promptVars, memoryVars, moduleVars, cleanupVars, sandboxVars>>
notModuleVars == <<brainVars, retryVars, coreVars, relayVars,
    toolVars, initVars, waitVars, ringVars, signalVars, focusVars, execVars, jsonVars, promptVars, memoryVars, insightVars, cleanupVars, sandboxVars>>
notCleanupVars == <<brainVars, retryVars, coreVars, relayVars,
    toolVars, initVars, waitVars, ringVars, signalVars, focusVars, execVars, jsonVars, promptVars, memoryVars, insightVars, moduleVars, sandboxVars>>
notSandboxVars == <<brainVars, retryVars, coreVars, relayVars,
    toolVars, initVars, waitVars, ringVars, signalVars, focusVars, execVars, jsonVars, promptVars, memoryVars, insightVars, moduleVars, cleanupVars>>
\* what the two requests of _process_task leave alone
notBrainPromptVars == <<retryVars, coreVars, relayVars, toolVars,
    initVars, waitVars, ringVars, signalVars, focusVars, execVars, jsonVars, memoryVars, insightVars, moduleVars, cleanupVars, sandboxVars>>

(***************************************************************************)
(* Values.                                                                 *)
(***************************************************************************)
\* Python None for an Optional[SpiritThought]
NoThought == [id |-> 0, guidance |-> "", type |-> ""]

\* SpiritThought as the Brain reads it: only .guidance is used.  type is the
\* type of the Command it carries (specification, section 3: delegate and
\* focus commands are the ones that carry work to the Execution Agent).
Thought(i, g) == [id |-> i, guidance |-> g, type |-> "delegate"]
FocusThought(i, g) == [id |-> i, guidance |-> g, type |-> "focus"]

Guidances == {"", "task"}

\* Python None for BrainAction.result
NoResult == [present |-> FALSE, success |-> FALSE, task_ended |-> FALSE,
             user_messages |-> <<>>]

\* ExecutionResult(success, task_ended, user_messages)
ExecutionResult(s, e, m) == [present |-> TRUE, success |-> s, task_ended |-> e,
                             user_messages |-> m]

\* BrainAction(type, success, error, result)
BrainAction(t, s, err, r) == [type |-> t, success |-> s, error |-> err, result |-> r]

_max_history == 50

\* tools registered by ToolRegistry._register_default_tools (those used here)
RegisteredTools == {"say_to_user", "create_file"}

ToolCall(t, x) == [tool |-> t, text |-> x]

ToolCallLists ==
    { <<ToolCall("create_file", "")>>,
      <<ToolCall("create_file", ""), ToolCall("say_to_user", "m1")>>,
      <<ToolCall("say_to_user", "m1"), ToolCall("say_to_user", "m2")>>,
      <<ToolCall("no_such_tool", "")>>,
      <<ToolCall("no_such_tool", ""), ToolCall("say_to_user", "m1")>> }

\* legacy code, as the statements FunctionExecutor.execute runs
Codes ==
    { <<>>,
      <<"say_to_user">>,
      <<"say_to_user", "end">>,
      <<"say_to_user", "raise">> }

\* what parse_json_response returns for the LLM's reply:
\*   kind "none"  - unparseable (None, or an empty object); the field
\*                  response then holds the raw text of the reply
\*   kind "list"  - valid JSON that is not an object
\*   kind "dict"  - an object
Parsed(k, t, tc, r, c) ==
    [kind |-> k, action_type |-> t, tool_calls |-> tc, response |-> r, code |-> c]

Replies ==
    { Parsed("none", "", <<>>, "", <<>>),
      Parsed("none", "", <<>>, "junk", <<>>),
      Parsed("list", "", <<>>, "", <<>>),
      Parsed("dict", "unknown", <<>>, "", <<>>) }
    \cup { Parsed("dict", "tool_call", tc, "", <<>>) : tc \in ToolCallLists }
    \cup { Parsed("dict", "response", <<>>, r, <<>>) : r \in {"", "m1"} }
    \cup { Parsed("dict", "code", <<>>, "", c) : c \in Codes }


(***************************************************************************)
(* LivingCore._handle_output: the one registered output callback receives  *)
(* each text passed in, in order.                                          *)
(***************************************************************************)
_handle_output(received, texts) == received \o texts

(***************************************************************************)
(* ToolRegistry.execute and the default say_to_user tool.                  *)
(***************************************************************************)
\* ToolRegistry.execute: ToolResult.success
ToolSuccess(tc) == tc.tool \in RegisteredTools

\* texts the say_to_user tool function passes to the registry's output callback
RECURSIVE say_to_user(_)
say_to_user(tool_calls) ==
    IF tool_calls = <<>> THEN <<>>
    ELSE LET tc == Head(tool_calls) IN
         (IF tc.tool = "say_to_user" /\ ToolSuccess(tc) THEN <<tc.text>> ELSE <<>>)
         \o say_to_user(Tail(tool_calls))

(***************************************************************************)
(* FunctionExecutor.execute / execute_async on legacy code.                *)
(***************************************************************************)
RECURSIVE exec(_, _)
exec(code, st) ==
    IF code = <<>> THEN st
    ELSE LET stmt == Head(code) IN
         IF stmt = "raise" THEN [st EXCEPT !.raised = TRUE]
         ELSE IF stmt = "say_to_user"
              THEN exec(Tail(code), [st EXCEPT !._user_messages = Append(@, "m1")])
              ELSE exec(Tail(code), [st EXCEPT !._task_ended = TRUE])

execute(code) ==
    LET st == exec(code, [_user_messages |-> <<>>, _task_ended |-> FALSE,
                          raised |-> FALSE])
    IN IF st.raised
       THEN ExecutionResult(FALSE, FALSE, st._user_messages)
       ELSE ExecutionResult(TRUE, st._task_ended, st._user_messages)

(***************************************************************************)
(* BrainAgent._execute_action: the BrainAction built from a parsed object, *)
(* and the texts that reach the output callback while it is built.         *)
(***************************************************************************)
\* lines 321-324: "for msg in all_messages: self._on_output(msg)"
SendAllMessages(all_messages) == all_messages

\* a variant that ends the task after any tool_call step
ToolCallTaskEnded_Always(all_messages) == Len(all_messages) >= 0

\* line 329: task ended only if messages were sent to the user
ToolCallTaskEnded(all_messages) == Len(all_messages) > 0

ExecuteToolCall(parsed) ==
    LET tool_calls   == parsed.tool_calls
        all_messages == say_to_user(tool_calls)
        success      == \A i \in 1..Len(tool_calls) : ToolSuccess(tool_calls[i])
    IN [action |-> BrainAction("tool_call", success, ~success,
                       ExecutionResult(success, ToolCallTaskEnded(all_messages),
                                       all_messages)),
        out    |-> say_to_user(tool_calls) \o SendAllMessages(all_messages)]

ExecuteResponse(parsed) ==
    LET response_text == parsed.response
        msgs == IF response_text # "" THEN <<response_text>> ELSE <<>>
    IN [action |-> BrainAction("response", TRUE, FALSE,
                               ExecutionResult(TRUE, TRUE, msgs)),
        out    |-> msgs]

ExecuteCode(parsed) ==
    IF parsed.code = <<>>
    THEN [action |-> BrainAction("code", TRUE, FALSE, NoResult), out |-> <<>>]
    ELSE LET result == execute(parsed.code) IN
         [action |-> BrainAction("code", result.success, ~result.success, result),
          out    |-> result.user_messages
                     \o (IF result.success THEN result.user_messages ELSE <<>>)]

_execute_action(parsed) ==
    CASE parsed.action_type = "tool_call" -> ExecuteToolCall(parsed)
      [] parsed.action_type = "response"  -> ExecuteResponse(parsed)
      [] parsed.action_type = "code"      -> ExecuteCode(parsed)
      [] OTHER -> [action |-> BrainAction(parsed.action_type, FALSE, TRUE, NoResult),
                   out    |-> <<>>]

\* BrainAgent._record_action
_record_action_KeepOldest(history, action) ==
    LET h == Append(history, action) IN
    IF Len(h) > _max_history
    THEN SubSeq(h, 1, _max_history)
    ELSE h
_record_action(history, action) ==
    LET h == Append(history, action) IN
    IF Len(h) > _max_history
    THEN SubSeq(h, Len(h) - _max_history + 1, Len(h))
    ELSE h

(***************************************************************************)
(* The Brain's run_loop.  Each action runs the coroutine from one await    *)
(* (the queue get, or a think() request) to the next.                      *)
(*   bpc = "wait"               awaiting self._thought_stream.get()        *)
(*   bpc = "think_initial"      awaiting think() in _process_task, l.217   *)
(*   bpc = "think_correction"   awaiting think() in _process_task, l.240   *)
(*   bpc = "think_continuation" awaiting think() in _handle_continuation   *)
(*   bpc = "think_recovery"     awaiting think() in _handle_failure        *)
(*   bpc = "exited"             run_loop has returned                      *)
(***************************************************************************)
Line(e) == [event |-> e, id |-> current_task.id]

InitBrain ==
    /\ thought_stream = <<>>
    /\ put_count = 0
    /\ current_thought = NoThought
    /\ current_task = NoThought
    /\ task_context = ""
    /\ action_history = <<>>
    /\ bpc = "wait"
    /\ requests = 0
    /\ log = <<>>
    /\ delivered = <<>>

\* the Spirit side: "await stream.put(thought)"
PutThought ==
    /\ put_count < MaxCommands
    /\ \E g \in Guidances :
         thought_stream' = Append(thought_stream, Thought(put_count + 1, g))
    /\ put_count' = put_count + 1
    /\ UNCHANGED <<current_thought, current_task, task_context, action_history,
                   bpc, requests, log, delivered>>
    /\ UNCHANGED notBrainVars

\* the Spirit side: a thought that carries a focus command is put
PutFocus ==
    /\ put_count < MaxCommands
    /\ thought_stream' = Append(thought_stream, FocusThought(put_count + 1, "task"))
    /\ put_count' = put_count + 1
    /\ UNCHANGED <<current_thought, current_task, task_context, action_history,
                   bpc, requests, log, delivered>>
    /\ UNCHANGED notBrainVars

\* run_loop l.556-561, process l.162-172, _process_task l.176-217
GetThought ==
    /\ bpc = "wait"
    /\ thought_stream # <<>>
    /\ thought_stream' = Tail(thought_stream)
    /\ LET thought == Head(thought_stream)
           takes   == current_task = NoThought
           task    == IF takes THEN thought ELSE current_task
       IN /\ current_thought' = IF takes THEN NoThought ELSE thought
          /\ task_context' = IF takes THEN "" ELSE task_context
          /\ IF task.guidance = ""
             THEN /\ current_task' = NoThought
                  /\ bpc' = "wait"
                  /\ log' = log \o (IF takes THEN <<[event |-> "new_task", id |-> task.id]>>
                                             ELSE <<>>)
                                \o <<[event |-> "empty_guidance", id |-> task.id]>>
             ELSE /\ current_task' = task
                  /\ bpc' = "think_initial"
                  /\ log' = log \o (IF takes THEN <<[event |-> "new_task", id |-> task.id]>>
                                             ELSE <<>>)
    /\ UNCHANGED <<put_count, action_history, requests, delivered>>
    /\ UNCHANGED notBrainVars

InitFocus == focus_tasks = <<>>

\* BrainAgent._handle_focus_task(task) l.376-420: focus.create_task, the
\* decomposition request, focus.decompose_task and the clearing of the slot.
\* No line of the package calls it: it is part of no specification below.
_handle_focus_task(task, steps) ==
    /\ focus_tasks' = Append(focus_tasks, [title |-> task.guidance, steps |-> steps])
    /\ current_task' = NoThought

\* an exception escapes process(): run_loop l.571-572
LoopError ==
    /\ bpc' = "exited"
    /\ log' = Append(log, Line("loop_error"))
    /\ UNCHANGED <<current_task, task_context, action_history, delivered>>

\* _handle_failure l.451-460: the recovery request is issued
_handle_failure == bpc' = "think_recovery"

\* _handle_continuation l.424-433: the continuation request is issued
_handle_continuation ==
    /\ task_context' = "ctx"
    /\ bpc' = "think_continuation"

\* _process_task l.252-268
ExecuteInitial(parsed) ==
    LET x      == _execute_action(parsed)
        action == x.action
    IN /\ delivered' = _handle_output(delivered, x.out)
       /\ action_history' = _record_action(action_history, action)
       /\ IF action.result.present /\ action.result.task_ended
          THEN /\ current_task' = NoThought
               /\ task_context' = ""
               /\ bpc' = "wait"
               /\ log' = Append(log, Line("completed"))
          ELSE IF action.result.present /\ ~action.result.task_ended
          THEN /\ _handle_continuation
               /\ UNCHANGED <<current_task, log>>
          ELSE IF ~action.success
          THEN /\ _handle_failure
               /\ UNCHANGED <<current_task, task_context, log>>
          ELSE /\ bpc' = "wait"
               /\ UNCHANGED <<current_task, task_context, log>>

\* _process_task l.217 and l.229-237: no response yet, no prompt built yet
NoResponse == "(no response)"
NoPrompt == <<>>

InitPrompt ==
    /\ malformed = NoResponse
    /\ correction_request = NoPrompt

\* _process_task l.229-237: the f-string, as the sequence of its parts
correction_prompt_NoText(malformed_text, guidance) ==
    <<"Your previous response contained invalid JSON.",
      "Task:", guidance,
      "Respond with valid JSON only">>
correction_prompt(malformed_text, guidance) ==
    <<"Your previous response contained invalid JSON.",
      malformed_text,
      "Task:", guidance,
      "Respond with valid JSON only">>

\* _process_task l.216-237
ThinkInitial ==
    /\ bpc = "think_initial"
    /\ requests < MaxRequests
    /\ requests' = requests + 1
    /\ \/ /\ current_task' = NoThought            \* think() raised, l.218-221
          /\ bpc' = "wait"
          /\ log' = Append(log, Line("think_failed"))
          /\ UNCHANGED <<task_context, action_history, delivered>>
          /\ UNCHANGED promptVars
       \/ \E parsed \in Replies :
            CASE parsed.kind = "none" ->          \* l.224-237
                   /\ bpc' = "think_correction"
                   /\ malformed' = parsed.response
                   /\ correction_request' =
                          correction_prompt(parsed.response, current_task.guidance)
                   /\ UNCHANGED <<current_task, task_context, action_history,
                                  log, delivered>>
              [] parsed.kind = "list" -> LoopError /\ UNCHANGED promptVars
              [] OTHER -> ExecuteInitial(parsed) /\ UNCHANGED promptVars
    /\ UNCHANGED <<thought_stream, put_count, current_thought>>
    /\ UNCHANGED notBrainPromptVars

\* _process_task l.239-250
ThinkCorrection ==
    /\ bpc = "think_correction"
    /\ requests < MaxRequests
    /\ requests' = requests + 1
    /\ \/ /\ current_task' = NoThought            \* think() raised, l.247-250
          /\ bpc' = "wait"
          /\ log' = Append(log, Line("correction_failed"))
          /\ UNCHANGED <<task_context, action_history, delivered>>
       \/ \E parsed \in Replies :
            CASE parsed.kind = "none" ->          \* l.242-245
                   /\ current_task' = NoThought
                   /\ bpc' = "wait"
                   /\ log' = Append(log, Line("correction_unparsed"))
                   /\ UNCHANGED <<task_context, action_history, delivered>>
              [] parsed.kind = "list" -> LoopError
              [] OTHER -> ExecuteInitial(parsed)
    /\ malformed' = NoResponse                    \* the locals of _process_task
    /\ correction_request' = NoPrompt             \* are not read after l.241
    /\ UNCHANGED <<thought_stream, put_count, current_thought>>
    /\ UNCHANGED notBrainPromptVars

\* _handle_continuation l.433-449
ThinkContinuation ==
    /\ bpc = "think_continuation"
    /\ requests < MaxRequests
    /\ requests' = requests + 1
    /\ \/ LoopError                               \* think() raised, no handler
       \/ \E parsed \in Replies :
            CASE parsed.kind = "none" ->          \* l.435-437
                   /\ bpc' = "wait"
                   /\ log' = Append(log, Line("continuation_unparsed"))
                   /\ UNCHANGED <<current_task, task_context, action_history,
                                  delivered>>
              [] parsed.kind = "list" -> LoopError
              [] OTHER ->
                   LET x == _execute_action(parsed)
                       continuation_action == x.action
                   IN /\ delivered' = _handle_output(delivered, x.out)
                      /\ action_history' =
                             _record_action(action_history, continuation_action)
                      /\ IF continuation_action.result.present
                            /\ continuation_action.result.task_ended
                         THEN /\ current_task' = NoThought
                              /\ task_context' = ""
                              /\ bpc' = "wait"
                              /\ log' = Append(log, Line("completed_after_continuation"))
                         ELSE IF ~continuation_action.success
                         THEN /\ _handle_failure
                              /\ UNCHANGED <<current_task, task_context, log>>
                         ELSE /\ bpc' = "wait"
                              /\ UNCHANGED <<current_task, task_context, log>>
    /\ UNCHANGED <<thought_stream, put_count, current_thought>>
    /\ UNCHANGED notBrainVars

\* _handle_failure l.459-475
ThinkRecovery ==
    /\ bpc = "think_recovery"
    /\ requests < MaxRequests
    /\ requests' = requests + 1
    /\ bpc' = "wait"
    /\ \/ /\ current_task' = NoThought            \* think() raised, l.473-475
          /\ log' = Append(log, Line("recovery_failed"))
          /\ UNCHANGED <<task_context, action_history, delivered>>
       \/ \E parsed \in Replies :
            CASE parsed.kind = "none" ->          \* "if parsed:" is false
                   UNCHANGED <<current_task, task_context, action_history,
                               log, delivered>>
              [] parsed.kind = "list" ->          \* parsed.get raises inside the try
                   /\ current_task' = NoThought
                   /\ log' = Append(log, Line("recovery_failed"))
                   /\ UNCHANGED <<task_context, action_history, delivered>>
              [] OTHER ->
                   LET x == _execute_action(parsed)
                       recovery_action == x.action
                   IN /\ delivered' = _handle_output(delivered, x.out)
                      /\ action_history' =
                             _record_action(action_history, recovery_action)
                      /\ task_context' = task_context
                      /\ IF ~recovery_action.success
                         THEN /\ current_task' = NoThought
                              /\ log' = Append(log, Line("failed_after_retry"))
                         ELSE UNCHANGED <<current_task, log>>
    /\ UNCHANGED <<thought_stream, put_count, current_thought>>
    /\ UNCHANGED notBrainVars

(***************************************************************************)
(* AbstractAgent.think and _request_with_retry.                            *)
(*   rpc = "idle"      no request in progress                              *)
(*   rpc = "call"      awaiting self._client.chat.completions.create       *)
(*   rpc = "sleep"     awaiting asyncio.sleep                              *)
(*   rpc = "returned"  think() returned the completion                     *)
(*   rpc = "raised"    think() raised the last error                       *)
(***************************************************************************)
\* An error text, lower-cased as _request_with_retry passes it on, is the
\* sequence of its tokens: a number or a word (a keyword phrase is one word);
\* glued says that no character separates the token from the next one.
Word(w) == [t |-> "word", n |-> 0, w |-> w, glued |-> FALSE]
Num(n) == [t |-> "num", n |-> n, w |-> "", glued |-> FALSE]
Glued(tok) == [tok EXCEPT !.glued = TRUE]

\* the log entry of a completion call that succeeded
NoError == <<>>

\* error texts of a failed completion call
ErrorMessages ==
    { <<Word("connection reset")>>,
      <<Word("rate limit"), Word("exceeded")>>,
      <<Word("rate limit"), Word("exceeded"), Word("retry after"), Num(60),
        Word("seconds")>> }

\* l.219-220: the words that hold one of the rate_limit_keywords
rate_limit_keywords ==
    {"rate limit", "rate_limit", "too many requests", "quota exceeded",
     "limit exceeded", "retry after", "retry-after:", "please try again"}

\* the word after a number matches (?:second|sec|s\b), and likewise
SecondsUnit(tok) ==
    /\ tok.t = "word"
    /\ \/ tok.w \in {"second", "seconds", "sec", "secs"}
       \/ tok.w = "s" /\ ~tok.glued
MinutesUnit(tok) ==
    /\ tok.t = "word"
    /\ \/ tok.w \in {"minute", "minutes", "min", "mins"}
       \/ tok.w = "m" /\ ~tok.glued
HoursUnit(tok) ==
    /\ tok.t = "word"
    /\ \/ tok.w \in {"hour", "hours", "hr", "hrs"}
       \/ tok.w = "h" /\ ~tok.glued

\* re.search over the positions at which a pattern matches: the leftmost
\* one, 0 for None
Search(hits) ==
    IF hits = {} THEN 0 ELSE CHOOSE i \in hits : \A j \in hits : i <= j

\* where (\d+)\s*(?:second|sec|s\b) matches
SecondsAt(msg) ==
    {i \in DOMAIN msg :
        i + 1 \in DOMAIN msg /\ msg[i].t = "num" /\ SecondsUnit(msg[i + 1])}
\* where (\d+)\s*(?:minute|min|m\b) matches
MinutesAt(msg) ==
    {i \in DOMAIN msg :
        i + 1 \in DOMAIN msg /\ msg[i].t = "num" /\ MinutesUnit(msg[i + 1])}
\* where (\d+)\s*(?:hour|hr|h\b) matches
HoursAt(msg) ==
    {i \in DOMAIN msg :
        i + 1 \in DOMAIN msg /\ msg[i].t = "num" /\ HoursUnit(msg[i + 1])}
\* where (\d+)m(\d+)s matches
CombinedAt(msg) ==
    {i \in DOMAIN msg :
        /\ i + 3 \in DOMAIN msg
        /\ msg[i].t = "num" /\ msg[i].glued
        /\ msg[i + 1].t = "word" /\ msg[i + 1].w = "m" /\ msg[i + 1].glued
        /\ msg[i + 2].t = "num" /\ msg[i + 2].glued
        /\ msg[i + 3].t = "word"
        /\ msg[i + 3].w \in {"s", "sec", "secs", "second", "seconds"}}
\* where retry[_-]?after[:\s]+(\d+) matches
RetryAfterAt(msg) ==
    {i \in DOMAIN msg :
        /\ i + 1 \in DOMAIN msg
        /\ msg[i].t = "word" /\ msg[i].w \in {"retry-after:", "retry_after:"}
        /\ ~msg[i].glued
        /\ msg[i + 1].t = "num"}

\* AbstractAgent._extract_wait_time; 0 stands for None
_extract_wait_time(error_message) ==
    LET seconds_match == Search(SecondsAt(error_message))
        minutes_match == Search(MinutesAt(error_message))
        hours_match == Search(HoursAt(error_message))
        combined_match == Search(CombinedAt(error_message))
        retry_after_match == Search(RetryAfterAt(error_message))
    IN  IF ~\E i \in DOMAIN error_message :
               error_message[i].t = "word" /\ error_message[i].w \in rate_limit_keywords
            THEN 0
        ELSE IF seconds_match # 0 THEN error_message[seconds_match].n + 1
        ELSE IF minutes_match # 0 THEN error_message[minutes_match].n * 60 + 1
        ELSE IF hours_match # 0 THEN error_message[hours_match].n * 3600 + 1
        ELSE IF combined_match # 0
            THEN error_message[combined_match].n * 60
                     + error_message[combined_match + 2].n + 1
        ELSE IF retry_after_match # 0 THEN error_message[retry_after_match + 1].n + 1
        ELSE DEFAULT_RATE_LIMIT_WAIT

RECURSIVE Pow2(_)
Pow2(n) == IF n = 0 THEN 1 ELSE 2 * Pow2(n - 1)

\* a variant with "*" in place of "**"
BackoffDelay_Linear(k) == BASE_RETRY_DELAY * (2 * k)

\* l.189: delay = self.BASE_RETRY_DELAY * (2 ** attempt)
BackoffDelay(k) == BASE_RETRY_DELAY * Pow2(k)

\* l.196: the backoff sleep is skipped after the last attempt
SleepsAfter(k) == k < MAX_RETRIES - 1

InitRetry ==
    /\ rpc = "idle"
    /\ attempt = 0
    /\ calls = <<>>
    /\ sleeps = <<>>
    /\ _history = <<>>
    /\ thinks = 0

\* the prompt of the k-th think() request, and the texts a completion returns
\* (l.171: an empty content is returned as "")
Prompt(k) == <<"prompt", k>>
Responses == {"", "response"}

\* AbstractAgent.add_to_history
add_to_history_Prepend(history, role, content) ==
    <<[role |-> role, content |-> content]>> \o history
add_to_history(history, role, content) ==
    Append(history, [role |-> role, content |-> content])

\* think l.112-130: the request is built and the first attempt starts
Think ==
    /\ rpc \in {"idle", "returned", "raised"}
    /\ thinks < MaxThinks
    /\ thinks' = thinks + 1
    /\ rpc' = "call"
    /\ attempt' = 0
    /\ calls' = <<>>
    /\ sleeps' = <<>>
    /\ UNCHANGED _history
    /\ UNCHANGED notRetryVars

\* _request_with_retry l.168-171, think l.132-136
CallSucceeds ==
    /\ rpc = "call"
    /\ calls' = Append(calls, NoError)
    /\ rpc' = "returned"
    /\ \E response \in Responses :
         _history' = add_to_history(add_to_history(_history, "user", Prompt(thinks)),
                                    "assistant", response)
    /\ UNCHANGED <<attempt, sleeps, thinks>>
    /\ UNCHANGED notRetryVars

\* the loop header "for attempt in range(self.MAX_RETRIES)", and l.199-201
NextAttempt(k) ==
    /\ attempt' = k
    /\ rpc' = IF k < MAX_RETRIES THEN "call" ELSE "raised"

\* _request_with_retry l.173-197
CallFails ==
    /\ rpc = "call"
    /\ \E e \in ErrorMessages :
         LET wait_time == _extract_wait_time(e) IN
         /\ calls' = Append(calls, e)
         /\ IF wait_time # 0
            THEN /\ sleeps' = Append(sleeps, wait_time)
                 /\ rpc' = "sleep"
                 /\ attempt' = attempt
            ELSE IF SleepsAfter(attempt)
            THEN /\ sleeps' = Append(sleeps, BackoffDelay(attempt))
                 /\ rpc' = "sleep"
                 /\ attempt' = attempt
            ELSE /\ sleeps' = sleeps
                 /\ NextAttempt(attempt + 1)
    /\ UNCHANGED <<_history, thinks>>
    /\ UNCHANGED notRetryVars

\* asyncio.sleep returns (l.185-186 "continue", or l.197) and the for loop advances
SleepDone ==
    /\ rpc = "sleep"
    /\ NextAttempt(attempt + 1)
    /\ UNCHANGED <<calls, sleeps, _history, thinks>>
    /\ UNCHANGED notRetryVars


(***************************************************************************)
(* The orchestrator: LivingCore.start, stop, input_signal, on_action and   *)
(* the relay of Brain actions, together with the two loop tasks.  start()  *)
(* has no await and is one step; stop() yields at each wait_for, so other  *)
(* calls and the loops interleave with it there.  The states are those of  *)
(* a LivingCore whose __init__ has run to completion.                      *)
(***************************************************************************)
\* Signal(content, source, priority); content is a tuple of text parts
Signal(c, s, p) == [content |-> c, source |-> s, priority |-> p]

InputTexts == {"hello"}
InputSources == {"user", "test"}

\* the replies the Brain acts on while the orchestrator runs
CoreReplies ==
    { Parsed("dict", "response", <<>>, "r", <<>>),
      Parsed("dict", "tool_call", <<ToolCall("no_such_tool", "")>>, "", <<>>),
      Parsed("dict", "code", <<>>, "", <<"say_to_user", "raise">>) }

Call(op, outcome, args) ==
    [op |-> op, outcome |-> outcome, args |-> args, n |-> 1 - last_call.n]

\* f"Tool calls: {len(tool_calls)}"
ToolCallsText == <<"Tool calls: 0", "Tool calls: 1", "Tool calls: 2">>

\* a variant that copies the reasoning text into the content
ActionContent_Reasoning(parsed) == <<parsed.reasoning>>

\* BrainAction.content as _execute_action sets it
ActionContent(parsed) ==
    IF parsed.action_type = "tool_call"
        THEN <<ToolCallsText[Len(parsed.tool_calls) + 1]>>
    ELSE IF parsed.action_type = "response" THEN <<parsed.response>>
    ELSE IF parsed.action_type = "code" THEN parsed.code
    ELSE <<>>

\* ExecutionResult.output: the tools that ran for a tool_call, nothing for a
\* response; the statements of Codes print nothing
ActionOutput(parsed) ==
    IF parsed.action_type = "tool_call"
        THEN SelectSeq(parsed.tool_calls, LAMBDA tc : tc.tool \in RegisteredTools)
        ELSE <<>>

\* the BrainAction _execute_action returns, with its content and output
ExecutedAction(parsed) ==
    LET a == _execute_action(parsed).action
    IN  [type |-> a.type, content |-> ActionContent(parsed),
         success |-> a.success, error |-> a.error, result |-> a.result,
         output |-> ActionOutput(parsed)]

\* user_messages[:2]
FirstTwo(m) == SubSeq(m, 1, IF Len(m) < 2 THEN Len(m) ELSE 2)

\* LivingCore._handle_brain_action: the report built from an Action
_handle_brain_action(action) ==
    LET result_info ==
            IF ~action.result.present
                THEN [status |-> "", output |-> <<>>, error |-> FALSE]
            ELSE IF action.result.success
                THEN [status |-> "ok", output |-> action.output, error |-> FALSE]
            ELSE [status |-> "error", output |-> <<>>, error |-> action.error]
        user_context ==
            IF action.result.present THEN FirstTwo(action.result.user_messages)
            ELSE <<>>
    IN  Signal(<<"report", action.type, user_context, action.content, result_info>>,
               "brain_action", "low")

\* SpiritAgent.receive_input
receive_input(queue, text, source) ==
    Append(queue, Signal(<<text>>, source, "medium"))

\* SpiritAgent.receive_signal
receive_signal_Front(queue, signal) == <<signal>> \o queue
receive_signal(queue, signal) == Append(queue, signal)

InitCore ==
    /\ core_running = FALSE
    /\ spirit_running = FALSE
    /\ spirit_tasks = <<>>
    /\ brain_tasks = <<>>
    /\ _spirit_task = 0
    /\ _brain_task = 0
    /\ stop_pc = "idle"
    /\ stop_target = 0
    /\ stop_gen = 0
    /\ _signal_queue = <<>>
    /\ signal_count = 0
    /\ sweeps = 0
    /\ persists = 0
    /\ _on_action = "_handle_brain_action"
    /\ last_call = [op |-> "__init__", outcome |-> "constructed", args |-> <<>>, n |-> 0]

\* the guard of start() with the guard dropped
AlreadyRunning_Never == FALSE
\* the guard of start()
AlreadyRunning == core_running

\* the ChromaDB package is installed
InitMemory == CHROMADB_AVAILABLE = TRUE

\* MemoryMatrix.check_and_cleanup l.120 reads self._last_cleanup, which
\* __init__ assigns at l.101, after the early return of the fallback branch
\* (l.66-74): without ChromaDB the attribute does not exist and the read
\* raises AttributeError.  With ChromaDB, count() and _perform_cleanup catch
\* what their bodies raise.
check_and_cleanup_raises == ~CHROMADB_AVAILABLE

\* LivingCore.start when check_and_cleanup raises: l.292 has run, l.298-306
\* have not, and the exception leaves start()
StartSweepRaises ==
    /\ ~AlreadyRunning
    /\ check_and_cleanup_raises
    /\ sweeps < MaxStarts
    /\ core_running' = TRUE
    /\ sweeps' = sweeps + 1
    /\ last_call' = Call("start", "raised", <<>>)
    /\ UNCHANGED <<spirit_running, spirit_tasks, brain_tasks, _spirit_task,
                   _brain_task, stop_pc, stop_target, stop_gen, _signal_queue,
                   signal_count, persists, _on_action>>
    /\ UNCHANGED <<brainVars, notCoreVars>>

\* LivingCore.start.  spirit_running stands for the flag the Spirit's run_loop
\* sets when it begins and SpiritAgent.stop clears (agents/spirit.py is not
\* among the sources; its loop follows the specification, section 4.2).
start ==
    /\ IF AlreadyRunning
         THEN /\ last_call' = Call("start", "already_running", <<>>)
              /\ UNCHANGED <<core_running, spirit_running, spirit_tasks, brain_tasks,
                             _spirit_task, _brain_task, sweeps>>
         ELSE /\ Len(brain_tasks) < MaxStarts
              /\ core_running' = TRUE
              /\ ~check_and_cleanup_raises
              /\ sweeps' = sweeps + 1
              /\ spirit_tasks' = Append(spirit_tasks, "running")
              /\ _spirit_task' = Len(spirit_tasks) + 1
              /\ spirit_running' = TRUE
              /\ brain_tasks' = Append(brain_tasks, "wait")
              /\ _brain_task' = Len(brain_tasks) + 1
              /\ last_call' = Call("start", "started", <<>>)
    /\ UNCHANGED <<stop_pc, stop_target, stop_gen, _signal_queue, signal_count,
                   persists, _on_action>>
    /\ UNCHANGED <<brainVars, notCoreVars>>

\* the guard of stop()
NotRunning == ~core_running

\* LivingCore.stop up to its first await: the flag, spirit.stop() and
\* brain.stop().  BrainAgent.stop cancels BrainAgent._loop_task, which is
\* never assigned, so it reaches no loop task.
stop ==
    /\ IF NotRunning
         THEN /\ last_call' = Call("stop", "not_running", <<>>)
              /\ UNCHANGED <<core_running, spirit_running, stop_pc, stop_target,
                             stop_gen>>
         ELSE /\ stop_pc = "idle"
              /\ core_running' = FALSE
              /\ spirit_running' = FALSE
              /\ stop_pc' = "await_spirit"
              /\ stop_target' = _spirit_task
              /\ stop_gen' = Len(brain_tasks)
              /\ last_call' = Call("stop", "stopping", <<>>)
    /\ UNCHANGED <<spirit_tasks, brain_tasks, _spirit_task, _brain_task,
                   _signal_queue, signal_count, sweeps, persists, _on_action>>
    /\ UNCHANGED <<brainVars, notCoreVars>>

\* stop() after wait_for(self._spirit_task): it reads self._brain_task now
AwaitBrainTask ==
    /\ stop_pc' = "await_brain"
    /\ stop_target' = _brain_task

\* wait_for(self._spirit_task, 5.0) returns: the task had finished
WaitSpiritDone ==
    /\ stop_pc = "await_spirit"
    /\ stop_target # 0
    /\ spirit_tasks[stop_target] = "done"
    /\ AwaitBrainTask
    /\ UNCHANGED <<core_running, spirit_running, spirit_tasks, brain_tasks,
                   _spirit_task, _brain_task, stop_gen, _signal_queue,
                   signal_count, sweeps, persists, _on_action, last_call>>
    /\ UNCHANGED <<brainVars, notCoreVars>>

\* wait_for(self._spirit_task, 5.0) times out: it cancels the task, waits for
\* the cancellation and raises TimeoutError, which stop() swallows
WaitSpiritTimeout ==
    /\ stop_pc = "await_spirit"
    /\ stop_target # 0
    /\ spirit_tasks[stop_target] = "running"
    /\ spirit_tasks' = [spirit_tasks EXCEPT ![stop_target] = "done"]
    /\ AwaitBrainTask
    /\ UNCHANGED <<core_running, spirit_running, brain_tasks,
                   _spirit_task, _brain_task, stop_gen, _signal_queue,
                   signal_count, sweeps, persists, _on_action, last_call>>
    /\ UNCHANGED <<brainVars, notCoreVars>>

\* the end of stop(): memory.persist() and return
PersistAndReturn ==
    /\ persists' = persists + 1
    /\ stop_pc' = "idle"
    /\ stop_target' = 0

\* wait_for(self._brain_task, 5.0) returns: the task had finished
WaitBrainDone ==
    /\ stop_pc = "await_brain"
    /\ stop_target # 0
    /\ brain_tasks[stop_target] = "done"
    /\ PersistAndReturn
    /\ UNCHANGED <<core_running, spirit_running, spirit_tasks, brain_tasks,
                   _spirit_task, _brain_task, stop_gen, _signal_queue,
                   signal_count, sweeps, _on_action, last_call>>
    /\ UNCHANGED <<brainVars, notCoreVars>>

\* wait_for(self._brain_task, 5.0) times out and cancels the task; run_loop
\* returns from its except asyncio.CancelledError
WaitBrainTimeout ==
    /\ stop_pc = "await_brain"
    /\ stop_target # 0
    /\ brain_tasks[stop_target] # "done"
    /\ brain_tasks' = [brain_tasks EXCEPT ![stop_target] = "done"]
    /\ PersistAndReturn
    /\ UNCHANGED <<core_running, spirit_running, spirit_tasks,
                   _spirit_task, _brain_task, stop_gen, _signal_queue,
                   signal_count, sweeps, _on_action, last_call>>
    /\ UNCHANGED <<brainVars, notCoreVars>>

\* stop() l.327 "if self._spirit_task:" is false: no loop task was created
SkipSpiritWait ==
    /\ stop_pc = "await_spirit"
    /\ stop_target = 0
    /\ AwaitBrainTask
    /\ UNCHANGED <<core_running, spirit_running, spirit_tasks, brain_tasks,
                   _spirit_task, _brain_task, stop_gen, _signal_queue,
                   signal_count, sweeps, persists, _on_action, last_call>>
    /\ UNCHANGED <<brainVars, notCoreVars>>

\* stop() l.333 "if self._brain_task:" is false
SkipBrainWait ==
    /\ stop_pc = "await_brain"
    /\ stop_target = 0
    /\ PersistAndReturn
    /\ UNCHANGED <<core_running, spirit_running, spirit_tasks, brain_tasks,
                   _spirit_task, _brain_task, stop_gen, _signal_queue,
                   signal_count, sweeps, _on_action, last_call>>
    /\ UNCHANGED <<brainVars, notCoreVars>>

\* the guard of input_signal() with the guard dropped
SignalIgnored_Never == FALSE
\* the guard of input_signal()
SignalIgnored == ~core_running

\* LivingCore.input_signal
input_signal(text, source) ==
    /\ IF SignalIgnored
         THEN /\ last_call' = Call("input_signal", "ignored", <<text, source>>)
              /\ UNCHANGED <<_signal_queue, signal_count>>
         ELSE /\ signal_count < MaxSignals
              /\ _signal_queue' = receive_input(_signal_queue, text, source)
              /\ signal_count' = signal_count + 1
              /\ last_call' = Call("input_signal", "forwarded", <<text, source>>)
    /\ UNCHANGED <<core_running, spirit_running, spirit_tasks, brain_tasks,
                   _spirit_task, _brain_task, stop_pc, stop_target, stop_gen,
                   sweeps, persists, _on_action>>
    /\ UNCHANGED <<brainVars, notCoreVars>>

\* LivingCore.on_action(callback): BrainAgent.on_action stores the callback in
\* the one slot that held the relay
on_action ==
    /\ _on_action' = "user_callback"
    /\ last_call' = Call("on_action", "registered", <<>>)
    /\ UNCHANGED <<core_running, spirit_running, spirit_tasks, brain_tasks,
                   _spirit_task, _brain_task, stop_pc, stop_target, stop_gen,
                   _signal_queue, signal_count, sweeps, persists>>
    /\ UNCHANGED <<brainVars, notCoreVars>>

\* the Spirit loop leaves run_loop once stop() cleared its flag
SpiritLoopExit(i) ==
    /\ spirit_tasks[i] = "running"
    /\ ~spirit_running
    /\ spirit_tasks' = [spirit_tasks EXCEPT ![i] = "done"]
    /\ UNCHANGED <<core_running, spirit_running, brain_tasks,
                   _spirit_task, _brain_task, stop_pc, stop_target, stop_gen,
                   _signal_queue, signal_count, sweeps, persists, _on_action,
                   last_call>>
    /\ UNCHANGED <<brainVars, notCoreVars>>

\* one tick of the Spirit loop: it consumes a signal and may put a thought on
\* the thought stream
SpiritTick(i, emit) ==
    /\ spirit_tasks[i] = "running"
    /\ _signal_queue # <<>>
    /\ _signal_queue' = Tail(_signal_queue)
    /\ IF emit
         THEN /\ put_count < MaxCoreCommands
              /\ thought_stream' = Append(thought_stream, Thought(put_count + 1, "task"))
              /\ put_count' = put_count + 1
         ELSE UNCHANGED <<thought_stream, put_count>>
    /\ UNCHANGED <<core_running, spirit_running, spirit_tasks, brain_tasks,
                   _spirit_task, _brain_task, stop_pc, stop_target, stop_gen,
                   signal_count, sweeps, persists, _on_action, last_call>>
    /\ UNCHANGED <<current_thought, current_task, task_context, action_history,
                   bpc, requests, log, delivered>>
    /\ UNCHANGED notCoreVars

\* run_loop of Brain task i takes a thought off the stream; the loop is
\* "while True" and does not read BrainAgent._running
BrainLoopGet(i) ==
    /\ brain_tasks[i] = "wait"
    /\ thought_stream # <<>>
    /\ current_thought' = Head(thought_stream)
    /\ thought_stream' = Tail(thought_stream)
    /\ brain_tasks' = [brain_tasks EXCEPT ![i] = "process"]
    /\ UNCHANGED <<put_count, current_task, task_context, action_history,
                   bpc, requests, log, delivered>>
    /\ UNCHANGED <<core_running, spirit_running, spirit_tasks,
                   _spirit_task, _brain_task, stop_pc, stop_target, stop_gen,
                   _signal_queue, signal_count, sweeps, persists, _on_action,
                   last_call>>
    /\ UNCHANGED notCoreVars

\* process() of Brain task i executes a step; _record_action appends the
\* Action and calls the callback in BrainAgent._on_action
BrainLoopProcess(i, parsed) ==
    /\ brain_tasks[i] = "process"
    /\ action_history' = _record_action(action_history, _execute_action(parsed).action)
    /\ IF _on_action = "_handle_brain_action"
         THEN _signal_queue' = receive_signal(_signal_queue,
                                   _handle_brain_action(ExecutedAction(parsed)))
         ELSE UNCHANGED _signal_queue
    /\ brain_tasks' = [brain_tasks EXCEPT ![i] = "wait"]
    /\ UNCHANGED <<thought_stream, put_count, current_thought, current_task,
                   task_context, bpc, requests, log, delivered>>
    /\ UNCHANGED <<core_running, spirit_running, spirit_tasks,
                   _spirit_task, _brain_task, stop_pc, stop_target, stop_gen,
                   signal_count, sweeps, persists, _on_action, last_call>>
    /\ UNCHANGED notCoreVars

\* an exception escapes process() in Brain task i and ends its run_loop
BrainLoopError(i) ==
    /\ brain_tasks[i] = "process"
    /\ brain_tasks' = [brain_tasks EXCEPT ![i] = "done"]
    /\ UNCHANGED <<core_running, spirit_running, spirit_tasks,
                   _spirit_task, _brain_task, stop_pc, stop_target, stop_gen,
                   _signal_queue, signal_count, sweeps, persists, _on_action,
                   last_call>>
    /\ UNCHANGED <<brainVars, notCoreVars>>


(***************************************************************************)
(* One Brain step run twice on the same parsed reply, the two runs         *)
(* differing only in the reply's "reasoning" text.                         *)
(***************************************************************************)
Reasonings == {"", "plan A", "plan B"}

\* the parsed object with its "reasoning" key
WithReasoning(p, r) ==
    [kind |-> p.kind, action_type |-> p.action_type, tool_calls |-> p.tool_calls,
     response |-> p.response, code |-> p.code, reasoning |-> r]

DictReplies == {p \in Replies : p.kind = "dict"}

NoRelayInput ==
    [parsed |-> Parsed("none", "", <<>>, "", <<>>), reasoning1 |-> "", reasoning2 |-> ""]

\* brain.py l.275: the only use of the reasoning text
LogAction(parsed) == <<parsed.action_type, parsed.reasoning>>

\* one run: _execute_action, then _record_action calls the relay
RelayRun(parsed) ==
    [logged |-> LogAction(parsed),
     signal |-> _handle_brain_action(ExecutedAction(parsed))]

InitRelay ==
    /\ relay_in = NoRelayInput
    /\ relay_out = <<>>

InitRelayInputs ==
    /\ relay_in \in [parsed : DictReplies, reasoning1 : Reasonings,
                     reasoning2 : Reasonings]
    /\ relay_out = <<>>

RelayBoth ==
    /\ relay_out = <<>>
    /\ relay_in.parsed.kind = "dict"
    /\ relay_out' = <<RelayRun(WithReasoning(relay_in.parsed, relay_in.reasoning1)),
                      RelayRun(WithReasoning(relay_in.parsed, relay_in.reasoning2))>>
    /\ UNCHANGED relay_in
    /\ UNCHANGED notRelayVars


(***************************************************************************)
(* Tools and the Brain's system prompt: ToolRegistry.register,             *)
(* get_tools_description, BrainAgent.__init__, LivingCore.register_tool,   *)
(* rebuild_tool_prompts and set_personality.  A prompt is the sequence of  *)
(* its parts (headings, lines, names, descriptions); "x in prompt" is      *)
(* membership of a part.  Russian literals are transliterated.             *)
(***************************************************************************)
\* number of set_personality calls
MaxPersonalities == 1

Tool(n, desc) == [name |-> n, description |-> desc]

\* ToolRegistry._register_default_tools (the tools used in this model)
DefaultTools ==
    << Tool("say_to_user", "Skazat chto-to polzovatelyu."),
       Tool("create_file", "Sozdat fayl s ukazannym soderzhimym.") >>

CustomNames == {"my_custom_tool", "weather"}
CustomDescriptions == {"", "A custom test tool"}
Personalities == {"I am curious"}

\* prompts/brain_prompts.py: BRAIN_SYSTEM_PROMPT
BRAIN_SYSTEM_PROMPT ==
    << "## Your Nature:", "## CRITICAL BEHAVIOR:", "create_file",
       "## Available tools (injected):", "## Response Format:", "create_file",
       "say_to_user", "## EXECUTION RULES:", "## EXAMPLES:", "calculate" >>

\* the heading BrainAgent.__init__ replaces
InjectedMarker == "## Available tools (injected):"
\* the heading rebuild_tool_prompts replaces
RebuildMarker == "## Dostupnye funktsii dlya koda:"

\* str.replace(old, new) on a prompt
RECURSIVE Replace(_, _, _)
Replace(prompt, old, new) ==
    IF prompt = <<>> THEN <<>>
    ELSE (IF Head(prompt) = old THEN new ELSE <<Head(prompt)>>)
         \o Replace(Tail(prompt), old, new)

\* "x in prompt"
Contains(prompt, part) == part = "" \/ \E i \in DOMAIN prompt : prompt[i] = part

\* ToolRegistry.get_tools_description: one "**name** - description" line per
\* registered tool (the grouping by category only orders the lines)
RECURSIVE ToolLines(_)
ToolLines(tools) ==
    IF tools = <<>> THEN <<>>
    ELSE <<Head(tools).name, Head(tools).description>> \o ToolLines(Tail(tools))

get_tools_description(tools) == <<"## Dostupnye instrumenty:">> \o ToolLines(tools)

\* the text both call sites put in place of their marker
ToolSection(tools) ==
    <<"## Dostupnye instrumenty:">> \o get_tools_description(tools)
        \o <<"## Kak vyzyvat instrumenty:">>

\* BrainAgent.__init__, l.91-99
BrainInitPrompt(tools) == Replace(BRAIN_SYSTEM_PROMPT, InjectedMarker, ToolSection(tools))

\* ToolRegistry.register: description or func.__doc__ or the default text
EffectiveDescription(desc) == IF desc = "" THEN "Net opisaniya" ELSE desc

\* ToolRegistry.register: self._tools[tool_name] = tool
register(tools, tool) ==
    IF \E i \in DOMAIN tools : tools[i].name = tool.name
        THEN [i \in DOMAIN tools |-> IF tools[i].name = tool.name THEN tool ELSE tools[i]]
        ELSE Append(tools, tool)

\* the attributes of LivingCore other than the record of the latest call
coreState == <<core_running, spirit_running, spirit_tasks, brain_tasks,
               _spirit_task, _brain_task, stop_pc, stop_target, stop_gen,
               _signal_queue, signal_count, sweeps, persists, _on_action>>

InitTools ==
    /\ _tools = DefaultTools
    /\ _system_prompt = BrainInitPrompt(DefaultTools)
    /\ _personality_prompt_addition = <<>>
    /\ personality_count = 0

\* LivingCore.register_tool, called directly or as a decorator
register_tool(name, description) ==
    /\ _tools' = register(_tools, Tool(name, EffectiveDescription(description)))
    /\ last_call' = Call("register_tool", "registered",
                         <<name, EffectiveDescription(description)>>)
    /\ UNCHANGED <<_system_prompt, _personality_prompt_addition, personality_count>>
    /\ UNCHANGED coreState
    /\ UNCHANGED notToolVars

\* LivingCore.rebuild_tool_prompts
rebuild_tool_prompts ==
    /\ _system_prompt' = Replace(BRAIN_SYSTEM_PROMPT, RebuildMarker, ToolSection(_tools))
                            \o _personality_prompt_addition
    /\ last_call' = Call("rebuild_tool_prompts", "rebuilt", <<>>)
    /\ UNCHANGED <<_tools, _personality_prompt_addition, personality_count>>
    /\ UNCHANGED coreState
    /\ UNCHANGED notToolVars

\* LivingCore.set_personality -> _process_personality
set_personality(text) ==
    /\ personality_count < MaxPersonalities
    /\ personality_count' = personality_count + 1
    /\ _personality_prompt_addition' = <<"## Moya lichnost i kontekst:", text>>
    /\ _system_prompt' = _system_prompt \o _personality_prompt_addition'
    /\ last_call' = Call("set_personality", "set", <<text>>)
    /\ UNCHANGED _tools
    /\ UNCHANGED coreState
    /\ UNCHANGED notToolVars


(***************************************************************************)
(* LivingCore.__init__: the SystemParams built from system_params, then    *)
(* _init_components.  Floats are in tenths (2.0 is 20); max_tokens is an   *)
(* int.                                                                    *)
(***************************************************************************)
\* Field(ge=..., le=...) and Field(ge=...)
Field(lo, hi) == [ge |-> lo, has_le |-> TRUE, le |-> hi]
AtLeast(lo) == [ge |-> lo, has_le |-> FALSE, le |-> lo]

\* class SystemParams: the numeric fields that carry a range
SystemParamsFields ==
    [dm_temperature |-> Field(0, 20),
     mm_temperature |-> Field(0, 20),
     max_tokens |-> AtLeast(1),
     dm_interval |-> AtLeast(5),
     mm_interval |-> AtLeast(1),
     context_compression_threshold |-> Field(5, 10)]

\* the defaults of class SystemParams
DefaultParams ==
    [dm_temperature |-> 7, mm_temperature |-> 3, max_tokens |-> 1024,
     dm_interval |-> 30, mm_interval |-> 10, context_compression_threshold |-> 8]

\* the system_params arguments tried
ParamInputs ==
    [dm_temperature : {-1, 0, 7, 20, 30},
     mm_temperature : {0, 3, 20, 21},
     max_tokens : {0, 1, 1024},
     dm_interval : {4, 5, 30},
     mm_interval : {0, 1, 10},
     context_compression_threshold : {4, 5, 8, 10, 11}]

\* pydantic's check of one constrained field
Accepts(f, v) == v >= f.ge /\ (f.has_le => v <= f.le)

\* a validation that checks the two temperatures only
Validates_TemperaturesOnly(kwargs) ==
    /\ Accepts(SystemParamsFields.dm_temperature, kwargs.dm_temperature)
    /\ Accepts(SystemParamsFields.mm_temperature, kwargs.mm_temperature)

\* building SystemParams from kwargs does not raise
Validates(kwargs) ==
    \A n \in DOMAIN SystemParamsFields : Accepts(SystemParamsFields[n], kwargs[n])

\* the methods class BrainAgent (with AbstractAgent) defines
BrainAgentMethods ==
    {"set_system_prompt", "set_thought_stream", "set_context_reducer",
     "set_output_callback", "on_action", "process", "run_loop", "start", "stop"}

\* the calls _init_components makes on self.brain, in order (l.232-239)
BrainWiringCalls == <<"set_command_queue", "set_output_callback", "on_action">>

\* the state of a LivingCore whose __init__ has run to completion
InitConstructed ==
    /\ system_params = DefaultParams
    /\ params = <<DefaultParams>>
    /\ init_pc = "constructed"
    /\ brain_stream = "spirit_queue"

\* before LivingCore(...) is called with some system_params
InitNew ==
    /\ system_params \in ParamInputs
    /\ params = <<>>
    /\ init_pc = "new"
    /\ brain_stream = "None"

\* core.py l.94-95: self.params is the SystemParams built from the argument
SystemParams ==
    /\ init_pc = "new"
    /\ IF Validates(system_params)
         THEN /\ params' = <<system_params>>
              /\ init_pc' = "_init_components"
         ELSE /\ init_pc' = "ValidationError"
              /\ UNCHANGED params
    /\ UNCHANGED <<system_params, brain_stream>>
    /\ UNCHANGED notInitVars

\* LivingCore._init_components and the rest of __init__: a call of a method
\* the Brain does not define raises AttributeError out of the constructor
_init_components ==
    /\ init_pc = "_init_components"
    /\ IF \E i \in DOMAIN BrainWiringCalls : BrainWiringCalls[i] \notin BrainAgentMethods
         THEN /\ init_pc' = "AttributeError"
              /\ UNCHANGED brain_stream
         ELSE /\ init_pc' = "constructed"
              /\ brain_stream' = "spirit_queue"
    /\ UNCHANGED <<system_params, params>>
    /\ UNCHANGED notInitVars

(***************************************************************************)
(* AbstractAgent._extract_wait_time applied to one error text.             *)
(***************************************************************************)
MaxMinutes == 3

\* the durations that the error texts carry
Durations == {0, 1, 30, 60, 120}

\* how an error text opens
WaitPrefixes ==
    { <<Word("rate limit"), Word("exceeded"), Word("retry after")>>,
      <<Word("please try again"), Word("in")>>,
      <<Word("too many requests"), Word("wait")>> }

\* the shapes of error text: what follows the opening words
WaitForms == {"seconds", "combined", "minutes", "hours", "none"}

\* an error text, described by its shape and the numbers in it
WaitInputs ==
    [form : WaitForms, prefix : WaitPrefixes, x : Durations \cup 1..MaxMinutes,
     y : Durations]
        \cup [form : {"retry-after"}, prefix : {<<>>}, x : Durations, y : {0}]
        \cup [form : {"ordinary"}, prefix : {<<>>}, x : {0}, y : {0}]

\* the error text itself: "... 60 seconds", "... 1m30s", "... 2 minutes",
\* "... 1 hour", "retry-after: 120", "connection reset"
ErrorText(in) ==
    CASE in.form = "seconds" -> in.prefix \o <<Num(in.x), Word("seconds")>>
      [] in.form = "combined" ->
            in.prefix \o <<Glued(Num(in.x)), Glued(Word("m")), Glued(Num(in.y)), Word("s")>>
      [] in.form = "minutes" -> in.prefix \o <<Num(in.x), Word("minutes")>>
      [] in.form = "hours" -> in.prefix \o <<Num(in.x), Word("hours")>>
      [] in.form = "none" -> in.prefix
      [] in.form = "retry-after" -> <<Word("retry-after:"), Num(in.x)>>
      [] in.form = "ordinary" -> <<Word("connection reset")>>

\* shapes that carry one number only are drawn with y = 0, and the minutes of
\* a combined duration are at most MaxMinutes
WellFormedWaitInput(in) ==
    /\ in.form # "combined" => in.y = 0
    /\ in.form = "combined" => in.x \in 0..MaxMinutes
    /\ in.form = "none" => in.x = 0

\* no call of _extract_wait_time has returned yet
NotCalled == -1

InitWait ==
    /\ wait_in = [form |-> "ordinary", prefix |-> <<>>, x |-> 0, y |-> 0]
    /\ wait_out = NotCalled

InitWaitInputs ==
    /\ wait_in \in {in \in WaitInputs : WellFormedWaitInput(in)}
    /\ wait_out = NotCalled

ExtractWaitTime ==
    /\ wait_out = NotCalled
    /\ wait_out' = _extract_wait_time(ErrorText(wait_in))
    /\ UNCHANGED wait_in
    /\ UNCHANGED notWaitVars

(***************************************************************************)
(* BrainAgent._record_action and on_action on their own.                   *)
(***************************************************************************)
MaxRecorded == 52

\* the k-th Action that is recorded (BrainAction.timestamp tells them apart)
TimedAction(k) == [type |-> IF k % 2 = 0 THEN "response" ELSE "tool_call",
                   timestamp |-> k]

InitRing ==
    /\ ring_history = <<>>
    /\ ring_on_action = "None"
    /\ ring_recorded = <<>>
    /\ ring_passed = <<>>

\* BrainAgent.on_action(callback)
RegisterOnAction ==
    /\ ring_on_action = "None"
    /\ ring_on_action' = "callback"
    /\ UNCHANGED <<ring_history, ring_recorded, ring_passed>>
    /\ UNCHANGED notRingVars

\* BrainAgent._record_action(action)
RecordAction ==
    /\ Len(ring_recorded) < MaxRecorded
    /\ LET action == TimedAction(Len(ring_recorded) + 1) IN
       /\ ring_recorded' = Append(ring_recorded, action)
       /\ ring_history' = _record_action(ring_history, action)
       /\ ring_passed' = IF ring_on_action # "None"
                             THEN Append(ring_passed, action)
                             ELSE ring_passed
    /\ UNCHANGED ring_on_action
    /\ UNCHANGED notRingVars

(***************************************************************************)
(* The signal path: input_signal and the relay of Actions put Signals on   *)
(* the Deliberation Agent's queue, its tick takes them off.  The queue and *)
(* the tick follow the specification (agents/spirit.py is not among the    *)
(* sources).                                                               *)
(***************************************************************************)
MaxEnqueued == 3

SignalTexts == {"A", "B", "C"}

InitSignals ==
    /\ signal_queue = <<>>
    /\ relay_tasks = <<>>
    /\ signals_enqueued = <<>>
    /\ signals_dequeued = <<>>

\* how many Signals have been created so far
SignalsCreated == Len(signals_enqueued) + Len(relay_tasks)

\* LivingCore.input_signal of a running core: await spirit.receive_input
SignalIn(text, source) ==
    /\ SignalsCreated < MaxEnqueued
    /\ signal_queue' = receive_input(signal_queue, text, source)
    /\ signals_enqueued' = Append(signals_enqueued, Signal(<<text>>, source, "medium"))
    /\ UNCHANGED <<relay_tasks, signals_dequeued>>
    /\ UNCHANGED notSignalVars

\* LivingCore._handle_brain_action l.444-452: the report is handed to a new
\* task, asyncio.create_task(self.spirit.receive_signal(signal))
RelayAction(parsed) ==
    /\ SignalsCreated < MaxEnqueued
    /\ relay_tasks' = Append(relay_tasks, _handle_brain_action(ExecutedAction(parsed)))
    /\ UNCHANGED <<signal_queue, signals_enqueued, signals_dequeued>>
    /\ UNCHANGED notSignalVars

\* the event loop runs the oldest of the created tasks: receive_signal
RelayTaskRuns ==
    /\ relay_tasks # <<>>
    /\ signal_queue' = receive_signal(signal_queue, Head(relay_tasks))
    /\ signals_enqueued' = Append(signals_enqueued, Head(relay_tasks))
    /\ relay_tasks' = Tail(relay_tasks)
    /\ UNCHANGED signals_dequeued
    /\ UNCHANGED notSignalVars

\* one tick of the Deliberation loop takes the next pending Signal
SpiritDequeue ==
    /\ signal_queue # <<>>
    /\ signals_dequeued' = Append(signals_dequeued, Head(signal_queue))
    /\ signal_queue' = Tail(signal_queue)
    /\ UNCHANGED <<relay_tasks, signals_enqueued>>
    /\ UNCHANGED notSignalVars

(***************************************************************************)
(* FunctionExecutor.execute_async: legacy code runs on a worker thread of  *)
(* the default executor and calls say_to_user there; the Brain calls the   *)
(* same output callback on the event-loop thread.  An invocation of the    *)
(* callback takes two steps, its entry and its return.                     *)
(*   loop_pc = "idle"         no step in progress                          *)
(*   loop_pc = "awaiting"     inside await asyncio.wait_for(...)           *)
(*   loop_pc = "delivering"   between two calls of self._on_output         *)
(*   loop_pc = "in_callback"  inside self._on_output(msg)                  *)
(***************************************************************************)
MaxSteps == 2

\* legacy code as the statements that matter here
LegacyCodes ==
    { <<"say_to_user">>, <<"work", "say_to_user">>, <<"say_to_user", "say_to_user">>,
      <<"create_file", "end">> }

\* execute l.226-230 before the code and l.252-260 after it
Prologue == <<"reset">>
Epilogue == <<"return">>

\* the result a worker thread has not built yet
NotReturned == [success |-> FALSE, user_messages |-> <<>>, files_created |-> <<>>,
                task_ended |-> FALSE]

\* a worker thread: the code it was given, the statements of execute left to
\* run, whether it is inside the callback, and the ExecutionResult it built
WorkerThread(code) ==
    [program |-> code, code |-> Prologue \o code \o Epilogue,
     in_callback |-> FALSE, result |-> NotReturned]

Finished(thread) == thread.code = <<>>

InitExec ==
    /\ exec_threads = <<>>
    /\ loop_pc = "idle"
    /\ awaited = 0
    /\ loop_pending = 0
    /\ steps_begun = 0
    /\ _user_messages = <<>>
    /\ _files_created = <<>>
    /\ _task_ended = FALSE
    /\ exec_result = [of |-> 0, result |-> NotReturned]

\* _execute_action l.349-355 and execute_async l.282-288: run_in_executor
\* hands self.execute to a worker thread and the coroutine awaits it
ExecuteAsync(code) ==
    /\ loop_pc = "idle"
    /\ steps_begun < MaxSteps
    /\ steps_begun' = steps_begun + 1
    /\ exec_threads' = Append(exec_threads, WorkerThread(code))
    /\ awaited' = Len(exec_threads) + 1
    /\ loop_pc' = "awaiting"
    /\ UNCHANGED <<loop_pending, _user_messages, _files_created, _task_ended,
                   exec_result>>
    /\ UNCHANGED notExecVars

\* execute l.226-230 on the worker thread: the Executor's lists are replaced
\* by new empty ones and the flag is cleared
WorkerResets(t) ==
    /\ ~Finished(exec_threads[t])
    /\ Head(exec_threads[t].code) = "reset"
    /\ _user_messages' = <<>>
    /\ _files_created' = <<>>
    /\ _task_ended' = FALSE
    /\ exec_threads' = [exec_threads EXCEPT ![t].code = Tail(@)]
    /\ UNCHANGED <<loop_pc, awaited, loop_pending, steps_begun, exec_result>>
    /\ UNCHANGED notExecVars

\* the worker thread runs a statement that is not say_to_user
WorkerRuns(t) ==
    /\ ~Finished(exec_threads[t])
    /\ Head(exec_threads[t].code) = "work"
    /\ exec_threads' = [exec_threads EXCEPT ![t].code = Tail(@)]
    /\ UNCHANGED <<loop_pc, awaited, loop_pending, steps_begun, _user_messages,
                   _files_created, _task_ended, exec_result>>
    /\ UNCHANGED notExecVars

\* _say_to_user l.184-186 on the worker thread: the text (here the number of
\* the thread whose code says it) is appended to self._user_messages, the
\* list the attribute names now, and self.output_callback(text) is entered
WorkerEntersCallback(t) ==
    /\ ~Finished(exec_threads[t])
    /\ Head(exec_threads[t].code) = "say_to_user"
    /\ ~exec_threads[t].in_callback
    /\ _user_messages' = Append(_user_messages, t)
    /\ exec_threads' = [exec_threads EXCEPT ![t].in_callback = TRUE]
    /\ UNCHANGED <<loop_pc, awaited, loop_pending, steps_begun, _files_created,
                   _task_ended, exec_result>>
    /\ UNCHANGED notExecVars

\* the callback returns on the worker thread
WorkerLeavesCallback(t) ==
    /\ exec_threads[t].in_callback
    /\ exec_threads' = [exec_threads EXCEPT ![t].in_callback = FALSE,
                                             ![t].code = Tail(@)]
    /\ UNCHANGED <<loop_pc, awaited, loop_pending, steps_begun, _user_messages,
                   _files_created, _task_ended, exec_result>>
    /\ UNCHANGED notExecVars

\* _create_file l.189-198 on the worker thread
WorkerCreatesFile(t) ==
    /\ ~Finished(exec_threads[t])
    /\ Head(exec_threads[t].code) = "create_file"
    /\ _files_created' = Append(_files_created, t)
    /\ exec_threads' = [exec_threads EXCEPT ![t].code = Tail(@)]
    /\ UNCHANGED <<loop_pc, awaited, loop_pending, steps_begun, _user_messages,
                   _task_ended, exec_result>>
    /\ UNCHANGED notExecVars

\* _end l.215-218 on the worker thread
WorkerEnds(t) ==
    /\ ~Finished(exec_threads[t])
    /\ Head(exec_threads[t].code) = "end"
    /\ _task_ended' = TRUE
    /\ exec_threads' = [exec_threads EXCEPT ![t].code = Tail(@)]
    /\ UNCHANGED <<loop_pc, awaited, loop_pending, steps_begun, _user_messages,
                   _files_created, exec_result>>
    /\ UNCHANGED notExecVars

\* execute l.252-260 on the worker thread: the ExecutionResult is built from
\* copies of what the Executor's attributes hold now
WorkerReturns(t) ==
    /\ ~Finished(exec_threads[t])
    /\ Head(exec_threads[t].code) = "return"
    /\ exec_threads' = [exec_threads EXCEPT
           ![t].code = Tail(@),
           ![t].result = [success |-> TRUE, user_messages |-> _user_messages,
                          files_created |-> _files_created,
                          task_ended |-> _task_ended]]
    /\ UNCHANGED <<loop_pc, awaited, loop_pending, steps_begun, _user_messages,
                   _files_created, _task_ended, exec_result>>
    /\ UNCHANGED notExecVars

\* execute_async l.283-289 returns the result of execute; the Brain then
\* passes every user message to self._on_output (brain.py l.360-363)
ResultArrives ==
    /\ loop_pc = "awaiting"
    /\ Finished(exec_threads[awaited])
    /\ exec_result' = [of |-> awaited, result |-> exec_threads[awaited].result]
    /\ loop_pending' = Len(exec_threads[awaited].result.user_messages)
    /\ loop_pc' = "delivering"
    /\ awaited' = 0
    /\ UNCHANGED <<exec_threads, steps_begun, _user_messages, _files_created,
                   _task_ended>>
    /\ UNCHANGED notExecVars

\* execute_async l.290-294: wait_for times out and the step gets the
\* "timed out" result; the worker thread cannot be cancelled and runs on
TimedOut ==
    /\ loop_pc = "awaiting"
    /\ ~Finished(exec_threads[awaited])
    /\ exec_result' = [of |-> awaited, result |-> NotReturned]
    /\ loop_pc' = "idle"
    /\ awaited' = 0
    /\ UNCHANGED <<exec_threads, loop_pending, steps_begun, _user_messages,
                   _files_created, _task_ended>>
    /\ UNCHANGED notExecVars

\* _execute_action l.334-339: a response step has one text for the callback
Respond ==
    /\ loop_pc = "idle"
    /\ steps_begun < MaxSteps
    /\ steps_begun' = steps_begun + 1
    /\ loop_pending' = 1
    /\ loop_pc' = "delivering"
    /\ UNCHANGED <<exec_threads, awaited, _user_messages, _files_created,
                   _task_ended, exec_result>>
    /\ UNCHANGED notExecVars

\* self._on_output(msg) is entered on the event-loop thread, or the step ends
LoopEntersCallback ==
    /\ loop_pc = "delivering"
    /\ loop_pc' = IF loop_pending > 0 THEN "in_callback" ELSE "idle"
    /\ UNCHANGED <<exec_threads, awaited, loop_pending, steps_begun,
                   _user_messages, _files_created, _task_ended, exec_result>>
    /\ UNCHANGED notExecVars

\* the callback returns on the event-loop thread
LoopLeavesCallback ==
    /\ loop_pc = "in_callback"
    /\ loop_pending' = loop_pending - 1
    /\ loop_pc' = "delivering"
    /\ UNCHANGED <<exec_threads, awaited, steps_begun, _user_messages,
                   _files_created, _task_ended, exec_result>>
    /\ UNCHANGED notExecVars

(***************************************************************************)
(* AbstractAgent.parse_json_response and _repair_json.  A text is the      *)
(* sequence of its characters.                                             *)
(***************************************************************************)
Quote == "\""
Backslash == "\\"
Newline == "\n"
Space == " "
\* the grave accent of a markdown fence (the one character that a TLA+ string
\* cannot hold is written by its name)
Backtick == "GRAVE"

Whitespace == {Space, Newline}
Digits == {"1"}
\* the characters that may follow a backslash inside a JSON string
Escapes == {Quote, Backslash, "/", "b", "f", "n", "r", "t"}

\* str.lstrip, str.rstrip, str.strip
RECURSIVE lstrip(_)
lstrip(s) == IF s # <<>> /\ Head(s) \in Whitespace THEN lstrip(Tail(s)) ELSE s

RECURSIVE rstrip(_)
rstrip(s) ==
    IF s # <<>> /\ s[Len(s)] \in Whitespace
        THEN rstrip(SubSeq(s, 1, Len(s) - 1))
        ELSE s

strip(s) == rstrip(lstrip(s))

\* str.startswith, str.endswith
startswith(s, prefix) == Len(s) >= Len(prefix) /\ SubSeq(s, 1, Len(prefix)) = prefix
endswith(s, suffix) ==
    Len(s) >= Len(suffix) /\ SubSeq(s, Len(s) - Len(suffix) + 1, Len(s)) = suffix

\* str.find and str.rfind of one character: a 0-based index, -1 when absent
find(s, c) ==
    IF \E i \in DOMAIN s : s[i] = c
        THEN (CHOOSE i \in DOMAIN s : s[i] = c /\ \A j \in 1..(i - 1) : s[j] # c) - 1
        ELSE -1
rfind(s, c) ==
    IF \E i \in DOMAIN s : s[i] = c
        THEN (CHOOSE i \in DOMAIN s : s[i] = c /\ \A j \in (i + 1)..Len(s) : s[j] # c) - 1
        ELSE -1

\* str.count of one character
count(s, c) == Cardinality({i \in DOMAIN s : s[i] = c})

\* the Python slice s[a:b] for 0 <= a and b <= len(s)
Slice(s, a, b) == SubSeq(s, a + 1, b)

\* c * n; the empty text when n is not positive
RECURSIVE Repeat(_, _)
Repeat(c, n) == IF n <= 0 THEN <<>> ELSE <<c>> \o Repeat(c, n - 1)

\* The result of json.loads: ok is FALSE when it raises JSONDecodeError;
\* otherwise kind tells what was decoded and val is the decoded value, written
\* as its JSON text without insignificant whitespace.  rest is the input left
\* after the value.
Decoded(kind, val, rest) == [ok |-> TRUE, kind |-> kind, val |-> val, rest |-> rest]
JSONDecodeError == [ok |-> FALSE, kind |-> "", val |-> <<>>, rest |-> <<>>]

\* json.decoder.py_scanstring, from behind the opening quote
RECURSIVE scanstring(_, _)
scanstring(s, chars) ==
    IF s = <<>> THEN JSONDecodeError
    ELSE IF Head(s) = Quote
        THEN Decoded("string", <<Quote>> \o chars \o <<Quote>>, Tail(s))
    ELSE IF Head(s) = Backslash
        THEN IF Len(s) >= 2 /\ s[2] \in Escapes
                 THEN scanstring(Tail(Tail(s)), chars \o <<s[1], s[2]>>)
                 ELSE JSONDecodeError
    ELSE IF Head(s) = Newline THEN JSONDecodeError
    ELSE scanstring(Tail(s), Append(chars, Head(s)))

\* the NUMBER_RE match of json.scanner, for digits
RECURSIVE scannumber(_, _)
scannumber(s, digits) ==
    IF s # <<>> /\ Head(s) \in Digits
        THEN scannumber(Tail(s), Append(digits, Head(s)))
        ELSE Decoded("number", digits, s)

\* json.scanner.py_make_scanner: _scan_once, JSONObject and JSONArray
RECURSIVE scan_once(_)
RECURSIVE JSONObject(_, _)
RECURSIVE JSONArray(_, _)
scan_once(s) ==
    IF s = <<>> THEN JSONDecodeError
    ELSE IF Head(s) = Quote THEN scanstring(Tail(s), <<>>)
    ELSE IF Head(s) = "{"
        THEN LET t == lstrip(Tail(s)) IN
             IF t # <<>> /\ Head(t) = "}"
                 THEN Decoded("object", <<"{", "}">>, Tail(t))
                 ELSE JSONObject(t, <<"{">>)
    ELSE IF Head(s) = "["
        THEN LET t == lstrip(Tail(s)) IN
             IF t # <<>> /\ Head(t) = "]"
                 THEN Decoded("array", <<"[", "]">>, Tail(t))
                 ELSE JSONArray(t, <<"[">>)
    ELSE IF Head(s) \in Digits THEN scannumber(s, <<>>)
    ELSE JSONDecodeError

\* s stands at a key; pairs is the text of the members decoded so far
JSONObject(s, pairs) ==
    IF s = <<>> \/ Head(s) # Quote THEN JSONDecodeError
    ELSE LET key == scanstring(Tail(s), <<>>) IN
         IF ~key.ok THEN JSONDecodeError
         ELSE LET t == lstrip(key.rest) IN
              IF t = <<>> \/ Head(t) # ":" THEN JSONDecodeError
              ELSE LET value == scan_once(lstrip(Tail(t))) IN
                   IF ~value.ok THEN JSONDecodeError
                   ELSE LET u == lstrip(value.rest)
                            members == pairs \o key.val \o <<":">> \o value.val
                        IN  IF u = <<>> THEN JSONDecodeError
                            ELSE IF Head(u) = "}"
                                THEN Decoded("object", Append(members, "}"), Tail(u))
                            ELSE IF Head(u) = ","
                                THEN JSONObject(lstrip(Tail(u)), Append(members, ","))
                            ELSE JSONDecodeError

\* s stands at an element; values is the text of the elements decoded so far
JSONArray(s, values) ==
    LET value == scan_once(s) IN
    IF ~value.ok THEN JSONDecodeError
    ELSE LET u == lstrip(value.rest)
             elements == values \o value.val
         IN  IF u = <<>> THEN JSONDecodeError
             ELSE IF Head(u) = "]"
                 THEN Decoded("array", Append(elements, "]"), Tail(u))
             ELSE IF Head(u) = ","
                 THEN JSONArray(lstrip(Tail(u)), Append(elements, ","))
             ELSE JSONDecodeError

\* json.loads: one value with whitespace around it and nothing else
loads(s) ==
    LET value == scan_once(lstrip(s)) IN
    IF value.ok /\ lstrip(value.rest) = <<>>
        THEN Decoded(value.kind, value.val, <<>>)
        ELSE JSONDecodeError

\* Python None as the result of parse_json_response
None == [ok |-> FALSE, kind |-> "None", val |-> <<>>, rest |-> <<>>]

\* _repair_json l.320-330: is the end of the text inside a string?
RECURSIVE in_string(_, _, _)
in_string(text, inside, escaped) ==
    IF text = <<>> THEN inside
    ELSE IF escaped THEN in_string(Tail(text), inside, FALSE)
    ELSE IF Head(text) = Backslash THEN in_string(Tail(text), inside, TRUE)
    ELSE IF Head(text) = Quote THEN in_string(Tail(text), ~inside, FALSE)
    ELSE in_string(Tail(text), inside, FALSE)

\* AbstractAgent._repair_json; <<>> stands for None (the text given to it is
\* never empty)
_repair_json(text) ==
    LET open_braces == count(text, "{")
        close_braces == count(text, "}")
        open_brackets == count(text, "[")
        close_brackets == count(text, "]")
        repaired == text
                      \o (IF in_string(text, FALSE, FALSE) THEN <<Quote>> ELSE <<>>)
                      \o Repeat("]", open_brackets - close_brackets)
                      \o Repeat("}", open_braces - close_braces)
    IN  IF repaired # text THEN repaired ELSE <<>>

\* parse_json_response l.269-279: the markdown fence is removed
StripFence_KeepFirstLine(text) ==
    IF startswith(text, <<Backtick, Backtick, Backtick>>)
        THEN LET body == text
                 inner == IF endswith(body, <<Backtick, Backtick, Backtick>>)
                              THEN SubSeq(body, 1, Len(body) - 3)
                              ELSE body
             IN  strip(inner)
        ELSE text
StripFence(text) ==
    IF startswith(text, <<Backtick, Backtick, Backtick>>)
        THEN LET first_newline == find(text, Newline)
                 body == IF first_newline > 0
                             THEN Slice(text, first_newline + 1, Len(text))
                             ELSE text
                 inner == IF endswith(body, <<Backtick, Backtick, Backtick>>)
                              THEN SubSeq(body, 1, Len(body) - 3)
                              ELSE body
             IN  strip(inner)
        ELSE text

\* parse_json_response l.284-304: the fallbacks after json.loads has raised
FindObject(text) ==
    LET start_index == find(text, "{")
        end_index == rfind(text, "}") + 1
    IN  IF start_index >= 0 /\ end_index > start_index
            THEN LET json_text == Slice(text, start_index, end_index)
                     found == loads(json_text)
                     repaired == _repair_json(json_text)
                 IN  IF found.ok THEN found
                     ELSE IF repaired # <<>> /\ loads(repaired).ok THEN loads(repaired)
                     ELSE None
            ELSE None

\* AbstractAgent.parse_json_response
parse_json_response(response) ==
    LET text == StripFence(strip(response))
        parsed == loads(text)
    IN  IF parsed.ok THEN parsed ELSE FindObject(text)

(***************************************************************************)
(* parse_json_response applied to one response text, as given and wrapped  *)
(* in a markdown fence.                                                    *)
(***************************************************************************)
MaxClosers == 4

\* complete JSON objects, as a model writes them
ValidObjects ==
    {
        \* {"a": 1}
        <<"{", Quote, "a", Quote, ":", Space, "1", "}">>,
        \* {"a": "a1"}
        <<"{", Quote, "a", Quote, ":", Space, Quote, "a", "1", Quote, "}">>,
        \* {"a": [1, 1]}
        <<"{", Quote, "a", Quote, ":", Space, "[", "1", ",", Space, "1", "]",
          "}">>,
        \* {"a": {"a": 1}}
        <<"{", Quote, "a", Quote, ":", Space, "{", Quote, "a", Quote, ":",
          Space, "1", "}", "}">>,
        \* {"a": [{"a": "a"}]}
        <<"{", Quote, "a", Quote, ":", Space, "[", "{", Quote, "a", Quote,
          ":", Space, Quote, "a", Quote, "}", "]", "}">>,
        \* {"a": [1], "b": {"a": [1]}}
        <<"{", Quote, "a", Quote, ":", Space, "[", "1", "]", ",", Space,
          Quote, "b", Quote, ":", Space, "{", Quote, "a", Quote, ":", Space,
          "[", "1", "]", "}", "}">>,
        \* {"a": [{"a": {"a": 1}}]}
        <<"{", Quote, "a", Quote, ":", Space, "[", "{", Quote, "a", Quote,
          ":", Space, "{", Quote, "a", Quote, ":", Space, "1", "}", "}", "]",
          "}">>,
        \* {"a": "a\"a"}
        <<"{", Quote, "a", Quote, ":", Space, Quote, "a", Backslash, Quote,
          "a", Quote, "}">>
    }

\* other response texts: an array, an object inside prose, an object with
\* whitespace around it, prose, a string
OtherTexts ==
    {
        \* [1, 1]
        <<"[", "1", ",", Space, "1", "]">>,
        \* a {"a": 1} a
        <<"a", Space, "{", Quote, "a", Quote, ":", Space, "1", "}", Space,
          "a">>,
        \*  {"a": 1}\n
        <<Space, "{", Quote, "a", Quote, ":", Space, "1", "}", Newline>>,
        \* a
        <<"a">>,
        \* "a"
        <<Quote, "a", Quote>>
    }

\* every way of cutting a text short, the whole text included
Prefixes(s) == {SubSeq(s, 1, n) : n \in 1..Len(s)}

ResponseTexts == UNION {Prefixes(s) : s \in ValidObjects} \cup OtherTexts

\* how the response is wrapped: not at all, ```\n...\n```, ```json\n...\n```,
\* or ```json\n...``` with no line break before the closing fence
Fences == {"none", "bare", "tagged", "tight"}

Fence == <<Backtick, Backtick, Backtick>>

Wrap(fence, text) ==
    CASE fence = "none" -> text
      [] fence = "bare" -> Fence \o <<Newline>> \o text \o <<Newline>> \o Fence
      [] fence = "tagged" ->
            Fence \o <<"j", "s", "o", "n", Newline>> \o text \o <<Newline>> \o Fence
      [] fence = "tight" -> Fence \o <<"j", "s", "o", "n", Newline>> \o text \o Fence

\* parse_json_response has not returned yet
NotParsed == [ok |-> FALSE, kind |-> "pending", val |-> <<>>, rest |-> <<>>]

InitJson ==
    /\ json_in = [text |-> <<"a">>, fence |-> "none"]
    /\ json_out = NotParsed
    /\ json_unwrapped = NotParsed

InitJsonInputs ==
    /\ json_in \in [text : ResponseTexts, fence : Fences]
    /\ json_out = NotParsed
    /\ json_unwrapped = NotParsed

ParseJsonResponse ==
    /\ json_out = NotParsed
    /\ json_out' = parse_json_response(Wrap(json_in.fence, json_in.text))
    /\ json_unwrapped' = parse_json_response(json_in.text)
    /\ UNCHANGED json_in
    /\ UNCHANGED notJsonVars

(***************************************************************************)
(* InsightModule: problems are solved by one background task.  A problem's *)
(* id is its position in insight_tasks.  A processor is at                 *)
(*   pc = "get"       awaiting wait_for(self._task_queue.get(), 1.0)       *)
(*   pc = "sleeping"  awaiting asyncio.sleep(self.processing_delay)        *)
(*   pc = "solving"   awaiting self._llm_callback(prompt)                  *)
(*   pc = "done"      the task has ended                                   *)
(***************************************************************************)
MaxProblems == 2
MaxInsightStarts == 2

InitInsight ==
    /\ insight_tasks = <<>>
    /\ _task_queue = <<>>
    /\ _pending_queue = <<>>
    /\ queue_tasks = <<>>
    /\ insight_running = FALSE
    /\ processors = <<>>

\* InsightModule.submit_problem, called on the event-loop thread
submit_problem ==
    /\ Len(insight_tasks) < MaxProblems
    /\ insight_tasks' = Append(insight_tasks, "pending")
    /\ IF insight_running
         THEN /\ queue_tasks' = Append(queue_tasks, Len(insight_tasks) + 1)
              /\ UNCHANGED _pending_queue
         ELSE /\ _pending_queue' = Append(_pending_queue, Len(insight_tasks) + 1)
              /\ UNCHANGED queue_tasks
    /\ UNCHANGED <<_task_queue, insight_running, processors>>
    /\ UNCHANGED notInsightVars

\* InsightModule._queue_task: the queue is unbounded, put does not wait
_queue_task ==
    /\ queue_tasks # <<>>
    /\ _task_queue' = Append(_task_queue, Head(queue_tasks))
    /\ queue_tasks' = Tail(queue_tasks)
    /\ UNCHANGED <<insight_tasks, _pending_queue, insight_running, processors>>
    /\ UNCHANGED notInsightVars

\* InsightModule.start
InsightStart ==
    /\ ~insight_running
    /\ Len(processors) < MaxInsightStarts
    /\ insight_running' = TRUE
    /\ _task_queue' = _task_queue \o _pending_queue
    /\ _pending_queue' = <<>>
    /\ processors' = Append(processors, [pc |-> "get", task |-> 0])
    /\ UNCHANGED <<insight_tasks, queue_tasks>>
    /\ UNCHANGED notInsightVars

\* InsightModule.stop: the flag is cleared and the processor task, wherever
\* it is waiting, gets CancelledError, which ends its loop (l.217-218).
\* CancelledError is not an Exception, so the handler of _solve_problem
\* (l.253) does not see it.
InsightStop ==
    /\ insight_running
    /\ insight_running' = FALSE
    /\ processors' = [processors EXCEPT ![Len(processors)].pc = "done"]
    /\ UNCHANGED <<insight_tasks, _task_queue, _pending_queue, queue_tasks>>
    /\ UNCHANGED notInsightVars

\* _background_processor l.199-209: an id is taken off the queue; a problem
\* that is not PENDING is skipped
ProcessorGets(p) ==
    /\ processors[p].pc = "get"
    /\ _task_queue # <<>>
    /\ _task_queue' = Tail(_task_queue)
    /\ processors' =
         IF insight_tasks[Head(_task_queue)] = "pending"
           THEN [processors EXCEPT ![p] = [pc |-> "sleeping", task |-> Head(_task_queue)]]
           ELSE processors
    /\ UNCHANGED <<insight_tasks, _pending_queue, queue_tasks, insight_running>>
    /\ UNCHANGED notInsightVars

\* _background_processor l.212-215 and _solve_problem l.224-238: the delay is
\* over; without an LLM callback the problem is solved at once
ProcessorWakes(p, has_callback) ==
    /\ processors[p].pc = "sleeping"
    /\ IF has_callback
         THEN /\ insight_tasks' = [insight_tasks EXCEPT ![processors[p].task] = "processing"]
              /\ processors' = [processors EXCEPT ![p].pc = "solving"]
         ELSE /\ insight_tasks' = [insight_tasks EXCEPT ![processors[p].task] = "solved"]
              /\ processors' = [processors EXCEPT ![p] = [pc |-> "get", task |-> 0]]
    /\ UNCHANGED <<_task_queue, _pending_queue, queue_tasks, insight_running>>
    /\ UNCHANGED notInsightVars

\* _solve_problem l.238-256: the LLM callback returns or raises
ProcessorSolves(p, status) ==
    /\ processors[p].pc = "solving"
    /\ insight_tasks' = [insight_tasks EXCEPT ![processors[p].task] = status]
    /\ processors' = [processors EXCEPT ![p] = [pc |-> "get", task |-> 0]]
    /\ UNCHANGED <<_task_queue, _pending_queue, queue_tasks, insight_running>>
    /\ UNCHANGED notInsightVars

\* what the event loop does on its own
ProcessorStep ==
    \/ _queue_task
    \/ \E p \in DOMAIN processors : ProcessorGets(p)
    \/ \E p \in DOMAIN processors, has_callback \in BOOLEAN : ProcessorWakes(p, has_callback)
    \/ \E p \in DOMAIN processors, status \in {"solved", "failed"} : ProcessorSolves(p, status)

(***************************************************************************)
(* FocusModule: multi-step tasks.  A FocusTask is its status, its steps    *)
(* (id and status of each) and completed_at (0 for None); the texts, the   *)
(* priority and started_at take no part in any decision.                   *)
(***************************************************************************)
MaxFocusTasks == 2
MaxFocusSteps == 2
MaxFocusCalls == 5

StepIds == {"step1", "step2"}
\* values of the constructor argument: a small one and the default
ConcurrencyLimits == {1, 3}

TaskStep(id) == [id |-> id, status |-> "pending"]
FocusTask == [status |-> "pending", steps |-> <<>>, completed_at |-> 0]

InitModule ==
    /\ _tasks = <<>>
    /\ focus_queue = <<>>
    /\ max_concurrent_tasks = 3
    /\ now = 0
    /\ task_complete_calls = <<>>
    /\ focus_call = [op |-> "__init__", task |-> 0, returned |-> FALSE]

\* FocusModule(max_concurrent_tasks=...)
InitModuleAny ==
    /\ _tasks = <<>>
    /\ focus_queue = <<>>
    /\ max_concurrent_tasks \in ConcurrencyLimits
    /\ now = 0
    /\ task_complete_calls = <<>>
    /\ focus_call = [op |-> "__init__", task |-> 0, returned |-> FALSE]

\* every call reads the clock later than the one before
FocusCall(op, task_id, returned) ==
    /\ now < MaxFocusCalls
    /\ now' = now + 1
    /\ focus_call' = [op |-> op, task |-> task_id, returned |-> returned]
    /\ UNCHANGED max_concurrent_tasks

\* FocusModule.create_task with an id not used before
create_task ==
    /\ Len(_tasks) < MaxFocusTasks
    /\ _tasks' = Append(_tasks, FocusTask)
    /\ task_complete_calls' = Append(task_complete_calls, 0)
    /\ FocusCall("create_task", Len(_tasks) + 1, TRUE)
    /\ UNCHANGED focus_queue
    /\ UNCHANGED notModuleVars

\* FocusModule.add_steps with a list of one step
add_steps(task_id, step_id) ==
    /\ Len(_tasks[task_id].steps) < MaxFocusSteps
    /\ _tasks' = [_tasks EXCEPT ![task_id].steps = Append(@, TaskStep(step_id))]
    /\ FocusCall("add_steps", task_id, TRUE)
    /\ UNCHANGED <<focus_queue, task_complete_calls>>
    /\ UNCHANGED notModuleVars

\* FocusModule.start_task
start_task(task_id) ==
    /\ _tasks' = [_tasks EXCEPT ![task_id].status = "in_progress"]
    /\ focus_queue' = Append(focus_queue, task_id)
    /\ FocusCall("start_task", task_id, TRUE)
    /\ UNCHANGED task_complete_calls
    /\ UNCHANGED notModuleVars

\* "for step in task.steps: if step.id == step_id": the position of the first
\* such step, 0 if there is none
FirstWithId(steps, step_id) ==
    IF \E i \in DOMAIN steps : steps[i].id = step_id
      THEN CHOOSE i \in DOMAIN steps :
             steps[i].id = step_id /\ \A j \in 1..(i - 1) : steps[j].id # step_id
      ELSE 0

\* "for step in task.steps: if step.status == TaskStatus.PENDING"
FirstPending(steps) ==
    IF \E i \in DOMAIN steps : steps[i].status = "pending"
      THEN CHOOSE i \in DOMAIN steps :
             steps[i].status = "pending" /\ \A j \in 1..(i - 1) : steps[j].status # "pending"
      ELSE 0

\* _check_task_completion l.241-246: all_complete, for a task that has steps
all_complete(task) ==
    /\ task.steps # <<>>
    /\ \A i \in DOMAIN task.steps : task.steps[i].status \in {"completed", "failed"}

has_failures(task) == \E i \in DOMAIN task.steps : task.steps[i].status = "failed"

\* FocusModule._check_task_completion, the task afterwards
_check_task_completion_IgnoreFailures(task, at) ==
    IF all_complete(task)
      THEN [task EXCEPT !.status = "completed", !.completed_at = at]
      ELSE task
_check_task_completion(task, at) ==
    IF all_complete(task)
      THEN [task EXCEPT !.status = IF has_failures(task) THEN "failed" ELSE "completed",
                        !.completed_at = at]
      ELSE task

\* FocusModule.complete_step; error is whether an error text was passed
complete_step(task_id, step_id, error) ==
    LET task == _tasks[task_id]
        i == FirstWithId(task.steps, step_id)
        marked == [task EXCEPT !.steps[i].status =
                                   IF error THEN "failed" ELSE "completed"]
    IN  /\ IF i = 0
             THEN /\ FocusCall("complete_step", task_id, FALSE)
                  /\ UNCHANGED <<_tasks, task_complete_calls>>
             ELSE /\ _tasks' = [_tasks EXCEPT
                                    ![task_id] = _check_task_completion(marked, now + 1)]
                  /\ task_complete_calls' =
                         IF all_complete(marked)
                           THEN [task_complete_calls EXCEPT ![task_id] = @ + 1]
                           ELSE task_complete_calls
                  /\ FocusCall("complete_step", task_id, TRUE)
        /\ UNCHANGED focus_queue
        /\ UNCHANGED notModuleVars

\* FocusModule.get_pending_step
get_pending_step(task_id) ==
    LET i == FirstPending(_tasks[task_id].steps)
    IN  /\ IF i = 0
             THEN /\ FocusCall("get_pending_step", task_id, FALSE)
                  /\ UNCHANGED _tasks
             ELSE /\ _tasks' = [_tasks EXCEPT ![task_id].steps[i].status = "in_progress"]
                  /\ FocusCall("get_pending_step", task_id, TRUE)
        /\ UNCHANGED <<focus_queue, task_complete_calls>>
        /\ UNCHANGED notModuleVars

\* FocusModule.cancel_task
cancel_task(task_id) ==
    /\ IF _tasks[task_id].status \in {"completed", "failed"}
         THEN /\ FocusCall("cancel_task", task_id, FALSE)
              /\ UNCHANGED _tasks
         ELSE /\ _tasks' = [_tasks EXCEPT ![task_id].status = "cancelled",
                                          ![task_id].completed_at = now + 1]
              /\ FocusCall("cancel_task", task_id, TRUE)
    /\ UNCHANGED <<focus_queue, task_complete_calls>>
    /\ UNCHANGED notModuleVars

\* FocusModule.get_active_tasks, as the ids
get_active_tasks == {t \in DOMAIN _tasks : _tasks[t].status = "in_progress"}

(***************************************************************************)
(* MemoryMatrix._perform_cleanup.  A datetime is its day of the month and  *)
(* its position t on the time line, in days; importance is in tenths.      *)
(***************************************************************************)
MaxMemories == 2

\* the cleanup runs at position Today of the time line, on any day of a month
Today == 100
DaysOfMonth == {1, 7, 8, 15, 31}
\* how many days before the cleanup a memory was created
Ages == {1, 6, 8, 30}

MemoryEntry(age, importance, source, type) ==
    [timestamp |-> Today - age, importance |-> importance, source |-> source,
     type |-> type]

MemoryEntries ==
    { MemoryEntry(age, importance, source, type) :
        age \in Ages, importance \in {5, 7},
        source \in {"user", "personality"}, type \in {"", "foundational"} }

\* the stores of at most n memories
RECURSIVE Stores(_)
Stores(n) ==
    IF n = 0 THEN {{}}
    ELSE Stores(n - 1) \cup {s \cup {m} : s \in Stores(n - 1), m \in MemoryEntries}

\* now.replace(day=now.day - 7) if now.day > 7 else now   (l.150, l.166)
week_ago(current) == IF current.day > 7 THEN current.t - 7 ELSE current.t

\* l.171-186 (and l.152-158): what the cleanup keeps
Keeps(memory, current) ==
    \/ memory.source = "personality"
    \/ memory.type = "foundational"
    \/ memory.importance >= 7
    \/ memory.timestamp > week_ago(current)

\* MemoryMatrix._perform_cleanup: the memories that remain
_perform_cleanup(all_memories, current) ==
    {memory \in all_memories : Keeps(memory, current)}

InitCleanup ==
    /\ cleanup_in = [memories |-> {}, current |-> [day |-> 15, t |-> Today]]
    /\ cleanup_out = {}
    /\ cleaned = FALSE

InitCleanupInputs ==
    /\ cleanup_in \in
         [memories : Stores(MaxMemories),
          current : {[day |-> day, t |-> Today] : day \in DaysOfMonth}]
    /\ cleanup_out = {}
    /\ cleaned = FALSE

PerformCleanup ==
    /\ ~cleaned
    /\ cleanup_out' = _perform_cleanup(cleanup_in.memories, cleanup_in.current)
    /\ cleaned' = TRUE
    /\ UNCHANGED cleanup_in
    /\ UNCHANGED notCleanupVars

(***************************************************************************)
(* FunctionExecutor._validate_code and execute on code with imports.  Code *)
(* is the sequence of its statements; a dotted module name is the sequence *)
(* of its parts.                                                           *)
(***************************************************************************)
MaxStatements == 2

\* some of FunctionExecutor.BLOCKED_MODULES; "json" is not one of them
BLOCKED_MODULES == {"os", "subprocess", "sys"}
ModuleNames == {<<"os">>, <<"os", "path">>, <<"subprocess">>, <<"json">>}

\* "import a, b": ast.Import with its names;  "from m import x": ast.ImportFrom
Import(names) == [node |-> "Import", names |-> names, module |-> <<>>]
ImportFrom(module) == [node |-> "ImportFrom", names |-> <<>>, module |-> module]
SayStatement == [node |-> "say_to_user", names |-> <<>>, module |-> <<>>]

Statements ==
    {SayStatement}
    \cup {Import(<<m>>) : m \in ModuleNames}
    \cup {Import(<<m1, m2>>) : m1 \in {<<"json">>, <<"os">>}, m2 \in {<<"os">>, <<"json">>}}
    \cup {ImportFrom(m) : m \in {<<"os">>, <<"json">>}}

\* l.123-127: the one module name _validate_code looks at in a statement
module_name(node) ==
    IF node.node = "Import" THEN node.names[1][1]
    ELSE IF node.node = "ImportFrom" /\ node.module # <<>> THEN node.module[1]
    ELSE ""

\* FunctionExecutor._validate_code: TRUE when it raises SandboxViolation
_validate_code(code, unsafe_mode) ==
    /\ ~unsafe_mode
    /\ \E i \in DOMAIN code :
         /\ code[i].node \in {"Import", "ImportFrom"}
         /\ module_name(code[i]) \in BLOCKED_MODULES

\* the top-level modules a statement imports when it is executed
Imports(node) ==
    IF node.node = "Import" THEN {node.names[i][1] : i \in DOMAIN node.names}
    ELSE IF node.node = "ImportFrom" THEN {node.module[1]}
    ELSE {}

\* FunctionExecutor.execute l.233-262: the result, how many statements ran and
\* the modules they imported.  The globals passed to exec hold no
\* __builtins__ entry, so exec supplies the real builtins and every import
\* statement that is reached is carried out.
SandboxExecute(code, unsafe_mode) ==
    IF _validate_code(code, unsafe_mode)
      THEN [success |-> FALSE, executed |-> 0, imported |-> {}]
      ELSE [success |-> TRUE, executed |-> Len(code),
            imported |-> UNION {Imports(code[i]) : i \in DOMAIN code}]

InitSandbox ==
    /\ sandbox_in = [code |-> <<>>, unsafe_mode |-> FALSE]
    /\ sandbox_out = [success |-> FALSE, executed |-> 0, imported |-> {}]
    /\ sandbox_done = FALSE

InitSandboxInputs ==
    /\ sandbox_in \in [code : UNION {[1..k -> Statements] : k \in 0..MaxStatements},
                       unsafe_mode : BOOLEAN]
    /\ sandbox_out = [success |-> FALSE, executed |-> 0, imported |-> {}]
    /\ sandbox_done = FALSE

\* FunctionExecutor.execute(code)
Execute ==
    /\ ~sandbox_done
    /\ sandbox_out' = SandboxExecute(sandbox_in.code, sandbox_in.unsafe_mode)
    /\ sandbox_done' = TRUE
    /\ UNCHANGED sandbox_in
    /\ UNCHANGED notSandboxVars

(***************************************************************************)
(* Specifications.                                                         *)
(***************************************************************************)
Init ==
    /\ InitBrain
    /\ InitRetry
    /\ InitCore
    /\ InitRelay
    /\ InitTools
    /\ InitConstructed
    /\ InitWait
    /\ InitRing
    /\ InitSignals
    /\ InitFocus
    /\ InitExec
    /\ InitJson
    /\ InitPrompt
    /\ InitMemory
    /\ InitInsight
    /\ InitModule
    /\ InitCleanup
    /\ InitSandbox

\* the Execution loop with its collaborators
Next ==
    \/ PutThought
    \/ GetThought
    \/ ThinkInitial
    \/ ThinkCorrection
    \/ ThinkContinuation
    \/ ThinkRecovery

Spec == Init /\ [][Next]_vars

\* the request layer
NextRetry ==
    \/ Think
    \/ CallSucceeds
    \/ CallFails
    \/ SleepDone

SpecRetry == Init /\ [][NextRetry]_vars

\* the orchestrator with its two loops
NextCore ==
    \/ start
    \/ stop
    \/ WaitSpiritDone
    \/ WaitSpiritTimeout
    \/ WaitBrainDone
    \/ WaitBrainTimeout
    \/ \E text \in InputTexts, source \in InputSources : input_signal(text, source)
    \/ on_action
    \/ \E i \in DOMAIN spirit_tasks : SpiritLoopExit(i)
    \/ \E i \in DOMAIN spirit_tasks, emit \in BOOLEAN : SpiritTick(i, emit)
    \/ \E i \in DOMAIN brain_tasks : BrainLoopGet(i)
    \/ \E i \in DOMAIN brain_tasks, parsed \in CoreReplies : BrainLoopProcess(i, parsed)
    \/ \E i \in DOMAIN brain_tasks : BrainLoopError(i)

SpecCore == Init /\ [][NextCore]_vars

\* one Brain step run twice with two reasoning texts
InitRelayRuns ==
    /\ InitBrain
    /\ InitRetry
    /\ InitCore
    /\ InitRelayInputs
    /\ InitTools
    /\ InitConstructed
    /\ InitWait
    /\ InitRing
    /\ InitSignals
    /\ InitFocus
    /\ InitExec
    /\ InitJson
    /\ InitPrompt
    /\ InitMemory
    /\ InitInsight
    /\ InitModule
    /\ InitCleanup
    /\ InitSandbox

SpecRelay == InitRelayRuns /\ [][RelayBoth]_vars

\* tools and the Brain's system prompt
NextTools ==
    \/ \E name \in CustomNames, description \in CustomDescriptions :
            register_tool(name, description)
    \/ rebuild_tool_prompts
    \/ \E text \in Personalities : set_personality(text)

SpecTools == Init /\ [][NextTools]_vars

\* the constructor
InitConstruction ==
    /\ InitBrain
    /\ InitRetry
    /\ InitCore
    /\ InitRelay
    /\ InitTools
    /\ InitNew
    /\ InitWait
    /\ InitRing
    /\ InitSignals
    /\ InitFocus
    /\ InitExec
    /\ InitJson
    /\ InitPrompt
    /\ InitMemory
    /\ InitInsight
    /\ InitModule
    /\ InitCleanup
    /\ InitSandbox

NextInit ==
    \/ SystemParams
    \/ _init_components

SpecInit == InitConstruction /\ [][NextInit]_vars

\* _extract_wait_time on every error text
InitWaitRuns ==
    /\ InitBrain
    /\ InitRetry
    /\ InitCore
    /\ InitRelay
    /\ InitTools
    /\ InitConstructed
    /\ InitWaitInputs
    /\ InitRing
    /\ InitSignals
    /\ InitFocus
    /\ InitExec
    /\ InitJson
    /\ InitPrompt
    /\ InitMemory
    /\ InitInsight
    /\ InitModule
    /\ InitCleanup
    /\ InitSandbox

SpecWait == InitWaitRuns /\ [][ExtractWaitTime]_vars

\* the action history and its callback
NextRing ==
    \/ RegisterOnAction
    \/ RecordAction

SpecRing == Init /\ [][NextRing]_vars

\* the signal path
NextSignals ==
    \/ \E text \in SignalTexts, source \in InputSources : SignalIn(text, source)
    \/ \E parsed \in CoreReplies : RelayAction(parsed)
    \/ RelayTaskRuns
    \/ SpiritDequeue

SpecSignals == Init /\ [][NextSignals]_vars

\* legacy code on worker threads and the output callback
NextExec ==
    \/ \E code \in LegacyCodes : ExecuteAsync(code)
    \/ \E t \in DOMAIN exec_threads : WorkerRuns(t)
    \/ \E t \in DOMAIN exec_threads : WorkerEntersCallback(t)
    \/ \E t \in DOMAIN exec_threads : WorkerLeavesCallback(t)
    \/ \E t \in DOMAIN exec_threads : WorkerResets(t)
    \/ \E t \in DOMAIN exec_threads : WorkerCreatesFile(t)
    \/ \E t \in DOMAIN exec_threads : WorkerEnds(t)
    \/ \E t \in DOMAIN exec_threads : WorkerReturns(t)
    \/ ResultArrives
    \/ TimedOut
    \/ Respond
    \/ LoopEntersCallback
    \/ LoopLeavesCallback

SpecExec == Init /\ [][NextExec]_vars

\* parse_json_response on every response text
InitJsonRuns ==
    /\ InitBrain
    /\ InitRetry
    /\ InitCore
    /\ InitRelay
    /\ InitTools
    /\ InitConstructed
    /\ InitWait
    /\ InitRing
    /\ InitSignals
    /\ InitFocus
    /\ InitExec
    /\ InitJsonInputs
    /\ InitPrompt
    /\ InitMemory
    /\ InitInsight
    /\ InitModule
    /\ InitCleanup
    /\ InitSandbox

SpecJson == InitJsonRuns /\ [][ParseJsonResponse]_vars

\* the Execution loop when the Spirit sends focus commands
NextFocus ==
    \/ PutFocus
    \/ GetThought
    \/ ThinkInitial
    \/ ThinkCorrection
    \/ ThinkContinuation
    \/ ThinkRecovery

SpecFocus == Init /\ [][NextFocus]_vars

\* the orchestrator on a machine with or without the ChromaDB package
InitMemoryAny == CHROMADB_AVAILABLE \in BOOLEAN

InitStart ==
    /\ InitBrain
    /\ InitRetry
    /\ InitCore
    /\ InitRelay
    /\ InitTools
    /\ InitConstructed
    /\ InitWait
    /\ InitRing
    /\ InitSignals
    /\ InitFocus
    /\ InitExec
    /\ InitJson
    /\ InitPrompt
    /\ InitMemoryAny
    /\ InitInsight
    /\ InitModule
    /\ InitCleanup
    /\ InitSandbox

NextStart ==
    \/ NextCore
    \/ StartSweepRaises
    \/ SkipSpiritWait
    \/ SkipBrainWait

SpecStart == InitStart /\ [][NextStart]_vars

\* the InsightModule and its callers
NextInsight ==
    \/ submit_problem
    \/ InsightStart
    \/ InsightStop
    \/ ProcessorStep

SpecInsight == Init /\ [][NextInsight]_vars

\* the event loop runs what is ready, and an LLM call returns or raises
SpecInsightFair == SpecInsight /\ WF_vars(ProcessorStep)

\* the FocusModule and its callers
InitModuleRuns ==
    /\ InitBrain
    /\ InitRetry
    /\ InitCore
    /\ InitRelay
    /\ InitTools
    /\ InitConstructed
    /\ InitWait
    /\ InitRing
    /\ InitSignals
    /\ InitFocus
    /\ InitExec
    /\ InitJson
    /\ InitPrompt
    /\ InitMemory
    /\ InitInsight
    /\ InitModuleAny
    /\ InitCleanup
    /\ InitSandbox

NextModule ==
    \/ create_task
    \/ \E t \in DOMAIN _tasks, step_id \in StepIds : add_steps(t, step_id)
    \/ \E t \in DOMAIN _tasks : start_task(t)
    \/ \E t \in DOMAIN _tasks, step_id \in StepIds, error \in BOOLEAN :
         complete_step(t, step_id, error)
    \/ \E t \in DOMAIN _tasks : get_pending_step(t)
    \/ \E t \in DOMAIN _tasks : cancel_task(t)

SpecModule == InitModuleRuns /\ [][NextModule]_vars

\* _perform_cleanup on every store and date
InitCleanupRuns ==
    /\ InitBrain
    /\ InitRetry
    /\ InitCore
    /\ InitRelay
    /\ InitTools
    /\ InitConstructed
    /\ InitWait
    /\ InitRing
    /\ InitSignals
    /\ InitFocus
    /\ InitExec
    /\ InitJson
    /\ InitPrompt
    /\ InitMemory
    /\ InitInsight
    /\ InitModule
    /\ InitCleanupInputs
    /\ InitSandbox

SpecCleanup == InitCleanupRuns /\ [][PerformCleanup]_vars

\* execute on every code and mode
InitSandboxRuns ==
    /\ InitBrain
    /\ InitRetry
    /\ InitCore
    /\ InitRelay
    /\ InitTools
    /\ InitConstructed
    /\ InitWait
    /\ InitRing
    /\ InitSignals
    /\ InitFocus
    /\ InitExec
    /\ InitJson
    /\ InitPrompt
    /\ InitMemory
    /\ InitInsight
    /\ InitModule
    /\ InitCleanup
    /\ InitSandboxInputs

SpecSandbox == InitSandboxRuns /\ [][Execute]_vars

(***************************************************************************)
(* Properties of the Execution loop (specification Spec).                  *)
(***************************************************************************)
\* this transition executed a step and recorded its Action
StepExecuted == Len(action_history') = Len(action_history) + 1

\* the most recently recorded Action
LastAction == action_history[Len(action_history)]

LastLine == log[Len(log)]

\* this transition wrote a "Task completed" line
LoggedCompletion ==
    /\ Len(log') = Len(log) + 1
    /\ LastLine'.event \in {"completed", "completed_after_continuation"}

\* ids of the thoughts taken off the thought stream so far, in order
Dequeued == [i \in 1..(put_count - Len(thought_stream)) |-> i]

\* ids of the thoughts that became the active task ("New task" lines), in order
Activated ==
    LET lines == SelectSeq(log, LAMBDA l : l.event = "new_task")
    IN [i \in 1..Len(lines) |-> lines[i].id]

IsPrefix(s, t) == Len(s) <= Len(t) /\ \A i \in 1..Len(s) : s[i] = t[i]

\* C1: a task is cleared as complete only by a step whose outcome has
\* task_ended = TRUE; a tool_call step that produced no user message has
\* task_ended = FALSE, is never logged as a completion, and when it succeeded
\* the task is still the active task afterwards.
C1_CompletionNeedsTaskEnded ==
    [][ /\ LoggedCompletion =>
             /\ StepExecuted
             /\ LastAction'.result.present
             /\ LastAction'.result.task_ended
             /\ current_task # NoThought
             /\ current_task' = NoThought
        /\ ( /\ StepExecuted
             /\ LastAction'.type = "tool_call"
             /\ LastAction'.result.user_messages = <<>> ) =>
             /\ ~LastAction'.result.task_ended
             /\ ~LoggedCompletion
             /\ LastAction'.success =>
                    (current_task' = current_task /\ current_task' # NoThought)
      ]_vars

\* two successive tool-only steps have run and the task is still active
C1_Witness ==
    /\ bpc = "wait"
    /\ current_task # NoThought
    /\ Len(action_history) >= 2
    /\ \A i \in 1..Len(action_history) :
         /\ action_history[i].type = "tool_call"
         /\ action_history[i].success
         /\ action_history[i].result.user_messages = <<>>

\* C2: a step (initial, continuation or recovery) whose outcome has
\* task_ended = TRUE is recorded and leaves the active-task slot empty when the
\* processing cycle returns.
C2_TaskEndedClearsSlot ==
    [][ (StepExecuted /\ LastAction'.result.present /\ LastAction'.result.task_ended)
          => (current_task' = NoThought /\ bpc' = "wait") ]_vars

\* C3: the user messages of one step reach the output callback exactly once
\* each, in emission order.
C3_DeliveredExactlyOnce ==
    [][ StepExecuted =>
          delivered' = delivered \o LastAction'.result.user_messages ]_vars

\* C6: the Execution loop never returns because of an exception raised inside
\* a processing cycle.
C6_LoopSurvivesExceptions ==
    ~(bpc = "exited" /\ log # <<>> /\ LastLine.event = "loop_error")

\* C7: a step that succeeds with task_ended = FALSE is followed by a further
\* continuation request for the task, with no new command needed.
C7_ContinuesUntilEnded ==
    [][ ( /\ StepExecuted
          /\ LastAction'.success
          /\ LastAction'.result.present
          /\ ~LastAction'.result.task_ended )
          => bpc' = "think_continuation" ]_vars

\* C8: a failed step is followed by exactly one recovery request carrying its
\* error; when the recovery step fails too the task is cleared and the cycle
\* returns.
C8_OneRecoveryRound ==
    [][ (StepExecuted /\ ~LastAction'.success) =>
          IF bpc = "think_recovery"
          THEN current_task' = NoThought /\ bpc' = "wait"
          ELSE bpc' = "think_recovery" /\ current_task' = current_task ]_vars

\* C9: a thought is taken off the thought stream only while no task is active.
C9_DequeueOnlyWhenIdle ==
    [][ Len(thought_stream') < Len(thought_stream)
          => current_task = NoThought ]_vars

\* C10: the thoughts that became the active task are a prefix of the thoughts
\* dequeued, in the same order.
C10_ActivatedPrefixOfDequeued == IsPrefix(Activated, Dequeued)

(***************************************************************************)
(* Properties of the request layer (specification SpecRetry).              *)
(***************************************************************************)
RateLimited(outcome) == outcome # NoError /\ _extract_wait_time(outcome) # 0

OrdinaryFailure(outcome) == outcome # NoError /\ _extract_wait_time(outcome) = 0

OrdinaryFailures == Len(SelectSeq(calls, OrdinaryFailure))

AllOrdinaryFailures == \A i \in 1..Len(calls) : OrdinaryFailure(calls[i])

\* C4: rate-limited failures do not use up attempts: think() raises only after
\* MAX_RETRIES ordinary failures.
C4_RateLimitKeepsBudget ==
    rpc = "raised" => OrdinaryFailures = MAX_RETRIES

\* C5 as stated: MAX_RETRIES calls, each failed attempt k followed by a wait of
\* BASE_RETRY_DELAY * 2^k, then the error is raised.
C5_WaitAfterEveryAttempt ==
    (rpc = "raised" /\ AllOrdinaryFailures) =>
        /\ Len(calls) = MAX_RETRIES
        /\ sleeps = [k \in 1..MAX_RETRIES |-> BASE_RETRY_DELAY * Pow2(k - 1)]

\* C5 amended: MAX_RETRIES calls, failed attempt k followed by a wait of
\* BASE_RETRY_DELAY * 2^k for every k but the last, no wait after the last
\* failed attempt, then the error is raised.
C5_BackoffThenRaise ==
    /\ (rpc = "raised" /\ AllOrdinaryFailures) =>
          /\ Len(calls) = MAX_RETRIES
          /\ sleeps = [k \in 1..(MAX_RETRIES - 1) |-> BASE_RETRY_DELAY * Pow2(k - 1)]
    /\ (rpc \in {"call", "sleep"} /\ AllOrdinaryFailures) =>
          /\ Len(calls) <= MAX_RETRIES
          /\ \A k \in 1..Len(sleeps) : sleeps[k] = BASE_RETRY_DELAY * Pow2(k - 1)

\* a request has failed MAX_RETRIES times with ordinary errors and was raised
C5_Witness ==
    /\ rpc = "raised"
    /\ AllOrdinaryFailures
    /\ Len(calls) = MAX_RETRIES

(***************************************************************************)
(* Properties of the orchestrator (specification SpecCore).                *)
(***************************************************************************)
\* this transition is a call of the LivingCore method op
Called(op) == last_call'.n # last_call.n /\ last_call'.op = op

\* this transition took a thought off the thought stream
Dequeue == Len(thought_stream') < Len(thought_stream)

\* this transition is the end of stop(): persist and return
StopReturns == stop_pc # "idle" /\ stop_pc' = "idle"

LastSignal == _signal_queue[Len(_signal_queue)]

\* C11: once stop() has been requested the Execution loop takes no further
\* item off the command queue: every dequeue happens while the orchestrator
\* is running.
C11_NoDequeueAfterStop == [][Dequeue => core_running]_vars

\* C12: stop() flushes memory exactly once, and only when every loop task
\* that existed when stop() was called has terminated; it returns in that
\* same step.
C12_StopWaitsThenPersists ==
    [][(persists' # persists \/ StopReturns) =>
          /\ StopReturns
          /\ persists' = persists + 1
          /\ \A i \in 1..stop_gen :
                /\ spirit_tasks'[i] = "done"
                /\ brain_tasks'[i] = "done"]_vars

\* C13: start() on a running orchestrator launches no loop task and runs no
\* cleanup sweep; stop() on an orchestrator that is not running cancels
\* nothing and persists nothing.
C13_StartStopIdempotent ==
    [][/\ (Called("start") /\ core_running) =>
              UNCHANGED <<core_running, spirit_running, spirit_tasks, brain_tasks,
                          _spirit_task, _brain_task, sweeps, persists>>
       /\ (Called("stop") /\ ~core_running) =>
              UNCHANGED <<core_running, spirit_running, spirit_tasks, brain_tasks,
                          _spirit_task, _brain_task, stop_pc, sweeps, persists>>]_vars

\* a second start() returned on an orchestrator with one pair of loop tasks
C13_Witness ==
    /\ last_call.op = "start"
    /\ last_call.outcome = "already_running"
    /\ core_running
    /\ Len(brain_tasks) = 1
    /\ Len(spirit_tasks) = 1
    /\ sweeps = 1

\* C14: input_signal on an orchestrator that is not running leaves the signal
\* queue unchanged; on a running one it appends exactly one Signal with the
\* text and the source of the call.
C14_InputSignalGuard ==
    [][Called("input_signal") =>
          IF core_running
            THEN /\ Len(_signal_queue') = Len(_signal_queue) + 1
                 /\ SubSeq(_signal_queue', 1, Len(_signal_queue)) = _signal_queue
                 /\ LastSignal'.content = <<last_call'.args[1]>>
                 /\ LastSignal'.source = last_call'.args[2]
            ELSE _signal_queue' = _signal_queue]_vars

\* input_signal("hello", source="test") has just put its Signal on the queue
C14_Witness ==
    /\ last_call.op = "input_signal"
    /\ last_call.outcome = "forwarded"
    /\ last_call.args = <<"hello", "test">>
    /\ _signal_queue # <<>>
    /\ LastSignal.content = <<"hello">>
    /\ LastSignal.source = "test"

\* C15: every recorded Action is relayed to the Spirit as exactly one
\* low-priority Signal, whatever callbacks were registered.
C15_EveryActionRelayed ==
    [][StepExecuted =>
          /\ Len(_signal_queue') = Len(_signal_queue) + 1
          /\ LastSignal'.source = "brain_action"
          /\ LastSignal'.priority = "low"]_vars

(***************************************************************************)
(* Properties of the relay (specification SpecRelay).                      *)
(***************************************************************************)
\* C16: the reasoning text of a Brain step never reaches the Spirit: two
\* runs on the same reply that differ only in the reasoning text relay
\* identical Signals.
C16_ReasoningNotRelayed ==
    relay_out # <<>> => relay_out[1].signal = relay_out[2].signal

\* two runs of a tool_call step whose reasoning texts differ, and reached the
\* log, have relayed their Signals
C16_Witness ==
    /\ relay_out # <<>>
    /\ relay_in.parsed.action_type = "tool_call"
    /\ relay_in.reasoning1 # relay_in.reasoning2
    /\ relay_out[1].logged # relay_out[2].logged
    /\ relay_out[1].signal.source = "brain_action"

(***************************************************************************)
(* Properties of the tools and the prompt (specification SpecTools).       *)
(***************************************************************************)
\* the prompt carries the name and the description of the tool
Describes(prompt, tool) ==
    /\ Contains(prompt, tool.name)
    /\ Contains(prompt, tool.description)

\* C17: once register_tool(name, description) has returned, the Brain's
\* system prompt contains that name and that description.
C17_RegisterUpdatesPrompt ==
    [][Called("register_tool") =>
          Describes(_system_prompt', Tool(last_call'.args[1], last_call'.args[2]))]_vars

\* C18: once rebuild_tool_prompts has returned, the Brain's system prompt
\* describes every registered tool.
C18_RebuildDescribesAll ==
    [][Called("rebuild_tool_prompts") =>
          \A i \in DOMAIN _tools : Describes(_system_prompt', _tools[i])]_vars

(***************************************************************************)
(* Properties of the constructor (specification SpecInit).                 *)
(***************************************************************************)
\* C19: constructing the orchestrator succeeds and leaves the Brain reading
\* the queue the Spirit pushes to.
C19_ConstructionWiresQueue ==
    /\ init_pc # "AttributeError"
    /\ init_pc = "constructed" => brain_stream = "spirit_queue"

\* the ranges the claim gives, in tenths
InClaimedRanges(p) ==
    /\ p.dm_temperature >= 0 /\ p.dm_temperature <= 20
    /\ p.mm_temperature >= 0 /\ p.mm_temperature <= 20
    /\ p.max_tokens >= 1
    /\ p.dm_interval >= 5
    /\ p.mm_interval >= 1
    /\ p.context_compression_threshold >= 5
    /\ p.context_compression_threshold <= 10

\* C20: SystemParams with any numeric tunable out of range fails at
\* construction; every in-range combination is accepted unchanged.
C20_ParamsValidated ==
    init_pc # "new" =>
        IF InClaimedRanges(system_params)
            THEN init_pc # "ValidationError" /\ params = <<system_params>>
            ELSE init_pc = "ValidationError" /\ params = <<>>

\* dm_temperature = 3.0 with every other tunable in range has been rejected
C20_Witness ==
    /\ init_pc = "ValidationError"
    /\ system_params.dm_temperature = 30
    /\ InClaimedRanges([system_params EXCEPT !.dm_temperature = 7])
(***************************************************************************)
(* Properties of _extract_wait_time (specification SpecWait).              *)
(***************************************************************************)
\* C21: a rate-limit text that carries a duration yields that duration in
\* seconds plus one: "retry after 60 seconds" 61, a combined "XmYs"
\* 60 * X + Y + 1, "retry-after: 120" 121; a rate-limit text without a
\* number yields the default of 60
C21_WaitIsDurationPlusOne ==
    wait_out # NotCalled =>
        /\ wait_in.form = "seconds" => wait_out = wait_in.x + 1
        /\ wait_in.form = "combined" => wait_out = 60 * wait_in.x + wait_in.y + 1
        /\ wait_in.form = "retry-after" => wait_out = wait_in.x + 1
        /\ wait_in.form = "none" => wait_out = DEFAULT_RATE_LIMIT_WAIT
(***************************************************************************)
(* Properties of think (specification SpecRetry).                          *)
(***************************************************************************)
\* this transition is a completion call that succeeds, so think returns
ThinkReturns == rpc = "call" /\ rpc' = "returned"

\* C30: a think that succeeds appends exactly two entries to the history, the
\* user prompt and then the assistant response; every other step of a request,
\* up to and including the raise after the last retry, leaves the history as
\* it was
C30_HistoryGrowsOnSuccessOnly ==
    [][ /\ ThinkReturns =>
              \E response \in Responses :
                  _history' = _history \o
                      <<[role |-> "user", content |-> Prompt(thinks)],
                        [role |-> "assistant", content |-> response]>>
        /\ ~ThinkReturns => _history' = _history ]_vars

\* a first request has succeeded and a second one has raised after its retries
C30_Witness ==
    /\ thinks = 2
    /\ rpc = "raised"
    /\ Len(calls) = MAX_RETRIES
    /\ Len(_history) = 2
    /\ _history[1].role = "user" /\ _history[2].role = "assistant"
(***************************************************************************)
(* Properties of the action history (specification SpecRing).              *)
(***************************************************************************)
\* the last n elements of a sequence, all of it when it is shorter
LastN(seq, n) ==
    IF Len(seq) > n THEN SubSeq(seq, Len(seq) - n + 1, Len(seq)) ELSE seq

\* this transition records an Action
Records == Len(ring_recorded') = Len(ring_recorded) + 1

\* C28: the action history never holds more than 50 Actions and is always the
\* most recently recorded ones in recording order (the oldest is evicted
\* first); each recorded Action is passed to the registered on_action callback
\* exactly once, at the time it is recorded
C28_HistoryIsBoundedRing ==
    /\ [](/\ Len(ring_history) <= 50
          /\ ring_history = LastN(ring_recorded, 50))
    /\ [][ /\ (Records /\ ring_on_action # "None") =>
                 ring_passed' = Append(ring_passed, ring_recorded'[Len(ring_recorded')])
           /\ ~(Records /\ ring_on_action # "None") => ring_passed' = ring_passed ]_vars

\* more Actions were recorded than the history holds, the oldest was evicted,
\* and the callback was registered throughout
C28_Witness ==
    /\ Len(ring_recorded) = 51
    /\ Len(ring_history) = 50
    /\ ring_history[1].timestamp = 2
    /\ ring_passed = ring_recorded
(***************************************************************************)
(* Properties of the loop tasks (specification SpecCore).                  *)
(***************************************************************************)
\* the loop tasks that have not finished
LiveTasks(tasks) == {i \in DOMAIN tasks : tasks[i] # "done"}

\* C29: under every interleaving of start() and stop(), a start() made while
\* stop() is awaiting the loops included, at most one Execution loop task and
\* at most one Deliberation loop task is live, and when every call has
\* returned and is_running() is false no loop task is live
C29_AtMostOneLoopTask ==
    /\ Cardinality(LiveTasks(brain_tasks)) <= 1
    /\ Cardinality(LiveTasks(spirit_tasks)) <= 1
    /\ (stop_pc = "idle" /\ ~core_running) =>
           (LiveTasks(brain_tasks) = {} /\ LiveTasks(spirit_tasks) = {})
(***************************************************************************)
(* Properties of the signal path (specification SpecSignals).              *)
(***************************************************************************)
\* C26: the Deliberation Agent takes Signals in the order in which
\* receive_input and receive_signal (relayed reports included) put them on
\* the queue, and takes each of them exactly once: what it has taken,
\* followed by what is still queued, is what was put
C26_SignalsFifoOnce ==
    signals_dequeued \o signal_queue = signals_enqueued

\* an input, a relayed report and another input were taken in that order
C26_Witness ==
    /\ Len(signals_dequeued) = 3
    /\ signals_dequeued[1] = Signal(<<"A">>, "user", "medium")
    /\ signals_dequeued[2].source = "brain_action"
    /\ signals_dequeued[3] = Signal(<<"C">>, "user", "medium")
(***************************************************************************)
(* Further properties of the Execution loop (specification Spec).          *)
(***************************************************************************)
ActionTypes == {"tool_call", "response", "code"}

\* an Action of a type that _execute_action does not know
UnknownType(action) == action.type \notin ActionTypes

\* a step of the processing cycle that is in progress, this transition's step
\* included, had an unknown action type
UnknownStepInCycle ==
    \/ StepExecuted /\ UnknownType(LastAction')
    \/ bpc = "think_recovery" /\ action_history # <<>> /\ UnknownType(LastAction)

\* C23: a step whose parsed action type is none of tool_call, response and
\* code fails without raising (the Action is recorded as failed and the loop
\* goes on), and when its processing cycle returns the task has been
\* abandoned: the active-task slot is empty
C23_UnknownTypeAbandonsTask ==
    [][ /\ (StepExecuted /\ UnknownType(LastAction')) =>
              (~LastAction'.success /\ LastAction'.error /\ bpc' # "exited")
        /\ (UnknownStepInCycle /\ bpc' = "wait") => current_task' = NoThought
      ]_vars
(***************************************************************************)
(* Properties of the Execution loop fed with focus commands (specification *)
(* SpecFocus).                                                             *)
(***************************************************************************)
\* this transition takes a command of type focus off the thought stream
DequeuesFocus ==
    /\ Len(thought_stream') < Len(thought_stream)
    /\ Head(thought_stream).type = "focus"

\* C24: a dequeued command of type focus is not processed inline as the
\* active task: a focus task is created for it in the Focus collaborator and
\* the active-task slot is free right afterwards
C24_FocusHandedOver ==
    [][ DequeuesFocus =>
          /\ current_task' # Head(thought_stream)
          /\ bpc' = "wait"
          /\ Len(focus_tasks') = Len(focus_tasks) + 1
          /\ current_task = NoThought => current_task' = NoThought ]_vars
(***************************************************************************)
(* Properties of the output callback (specification SpecExec).             *)
(***************************************************************************)
\* the invocations of the output callback that are in progress
InProgress ==
    {t \in DOMAIN exec_threads : exec_threads[t].in_callback}
        \cup (IF loop_pc = "in_callback" THEN {0} ELSE {})

\* C25: at no time are two invocations of the output callback in progress,
\* also while legacy code is still running after its execution was reported
\* as timed out
C25_CallbackNeverConcurrent == Cardinality(InProgress) <= 1

\* what the code of worker thread t produces with the statement st: one
\* entry, the thread's number, per occurrence
Produced(t, st) ==
    [i \in 1..Len(SelectSeq(exec_threads[t].program, LAMBDA x : x = st)) |-> t]

\* C33: the ExecutionResult execute_async returns for an execution holds
\* exactly the user messages, the created files and the task_ended flag that
\* this execution's own code produced, also while the code of an earlier
\* execution that timed out is still running.
C33_ResultIsOwn ==
    exec_result.result.success =>
        /\ exec_result.result.user_messages = Produced(exec_result.of, "say_to_user")
        /\ exec_result.result.files_created = Produced(exec_result.of, "create_file")
        /\ exec_result.result.task_ended =
               (Produced(exec_result.of, "end") # <<>>)
(***************************************************************************)
(* Properties of parse_json_response (specification SpecJson).             *)
(***************************************************************************)
\* what a truncated text may lack: the quote that ends a string, then up to
\* MaxClosers closing brackets and braces in any order
Closings ==
    LET closers == UNION {[1..k -> {"]", "}"}] : k \in 0..MaxClosers}
    IN  {quote \o c : quote \in {<<>>, <<Quote>>}, c \in closers} \ {<<>>}

\* a valid object cut short
TruncatedObject(text) ==
    \E s \in ValidObjects : text \in Prefixes(s) /\ text # s

\* the text is unbalanced, and closing what it left open makes it an object
Recoverable(text) ==
    /\ ~loads(text).ok
    /\ \E closing \in Closings : loads(text \o closing).kind = "object"

\* C22: for a valid object that was truncated so that it is unbalanced but
\* recoverable (an unterminated string and/or missing closing braces and
\* brackets, at any nesting), parse_json_response returns an object, not None
C22_TruncatedObjectRecovered ==
    ( /\ json_out # NotParsed
      /\ json_in.fence = "none"
      /\ TruncatedObject(json_in.text)
      /\ Recoverable(json_in.text) )
        => (json_out.ok /\ json_out.kind = "object")

\* C27: for a response text wrapped in a fenced code block, with or without
\* a language tag, parse_json_response returns what it returns for the text
\* without the fence
C27_FenceMakesNoDifference ==
    (json_out # NotParsed /\ json_in.fence # "none") => json_out = json_unwrapped

\* {"a": [1, 1]} inside ```json ... ``` was decoded to the object
C27_Witness ==
    /\ json_in.fence = "tagged"
    /\ json_in.text \in ValidObjects
    /\ json_out.ok /\ json_out.kind = "object"
    /\ json_out.val = <<"{", Quote, "a", Quote, ":", "[", "1", ",", "1", "]", "}">>
    /\ json_unwrapped = json_out

(***************************************************************************)
(* Properties of the correction round-trip of _process_task                *)
(* (specification Spec).                                                   *)
(***************************************************************************)
\* this transition issued the correction request
CorrectionRequested == bpc # "think_correction" /\ bpc' = "think_correction"

\* this transition received the outcome of the correction request
CorrectionAnswered == bpc = "think_correction" /\ requests' = requests + 1

GiveUpLines == {"correction_unparsed", "correction_failed"}

\* this transition logged that the correction did not help
GivenUp ==
    /\ CorrectionAnswered
    /\ Len(log') = Len(log) + 1
    /\ LastLine'.event \in GiveUpLines

\* C31: an unparseable reply to the initial request of a task is followed by
\* exactly one correction request, whose prompt contains the malformed text;
\* when the corrected reply is unparseable too, or the correction request
\* fails, the active-task slot is cleared, no Action is recorded and nothing
\* more is done for that task.
C31_OneCorrectionThenGiveUp ==
    /\ [](bpc = "think_correction" =>
             /\ current_task # NoThought
             /\ malformed # NoResponse
             /\ Contains(correction_request, malformed)
             /\ Contains(correction_request, current_task.guidance))
    /\ [](\A i \in DOMAIN log :
             log[i].event \in GiveUpLines =>
                /\ current_task.id # log[i].id
                /\ \A j \in DOMAIN log : j > i => log[j].id # log[i].id)
    /\ [][ /\ CorrectionRequested =>
                /\ bpc = "think_initial"
                /\ requests' = requests + 1
                /\ current_task' = current_task
                /\ action_history' = action_history
           /\ CorrectionAnswered => bpc' # "think_correction"
           /\ GivenUp =>
                /\ current_task' = NoThought
                /\ action_history' = action_history
                /\ delivered' = delivered
                /\ bpc' = "wait"
           /\ (CorrectionAnswered /\ ~StepExecuted /\ bpc' # "exited") => GivenUp
         ]_vars

\* a task was given up after a correction whose reply did not parse either,
\* and the next task is being worked on
C31_Witness ==
    /\ \E i \in DOMAIN log : log[i].event = "correction_unparsed" /\ log[i].id = 1
    /\ action_history = <<>>
    /\ current_task.id = 2
    /\ bpc = "think_correction"
    /\ malformed = "junk"

(***************************************************************************)
(* Properties of a start() that fails part-way (specification SpecStart).  *)
(***************************************************************************)
\* C32: a start() whose cleanup sweep raises does not leave the orchestrator
\* reporting itself as running, and the next start() is not turned away as
\* "already running".
C32_FailedStartNotRunning ==
    [][ /\ (Called("start") /\ last_call'.outcome = "raised") => ~core_running'
        /\ (Called("start") /\ last_call.op = "start" /\ last_call.outcome = "raised")
              => last_call'.outcome # "already_running" ]_vars

(***************************************************************************)
(* Properties of the InsightModule (specification SpecInsightFair).        *)
(***************************************************************************)
\* problem i has status SOLVED or FAILED
Settled(i) == Len(insight_tasks) >= i /\ insight_tasks[i] \in {"solved", "failed"}

\* C34: when the module is eventually running and stays running, every
\* submitted problem eventually has status SOLVED or FAILED, also when a
\* stop() arrived during its thinking delay or while it was being solved.
C34_EveryProblemSettles ==
    (<>[]insight_running) =>
        \A i \in 1..MaxProblems :
            [](Len(insight_tasks) >= i => <>Settled(i))

(***************************************************************************)
(* Properties of the FocusModule (specification SpecModule).               *)
(***************************************************************************)
\* this transition is a call of complete_step
CompleteStepCall == now' = now + 1 /\ focus_call'.op = "complete_step"

\* C35: after a complete_step that marked a step, a task all of whose steps
\* are COMPLETED or FAILED is COMPLETED when no step failed and FAILED when
\* one did, and completed_at is set; while a step is still PENDING or
\* IN_PROGRESS complete_step leaves the task's status and completed_at as
\* they were.
C35_TaskFollowsItsSteps ==
    [][ CompleteStepCall =>
          LET before == _tasks[focus_call'.task]
              after  == _tasks'[focus_call'.task]
          IN  IF focus_call'.returned
                THEN /\ all_complete(after) =>
                          /\ after.status =
                                 IF has_failures(after) THEN "failed" ELSE "completed"
                          /\ after.completed_at = now'
                     /\ ~all_complete(after) =>
                          /\ after.status = before.status
                          /\ after.completed_at = before.completed_at
                ELSE after = before ]_vars

\* the second of two steps was completed after the first had failed
C35_Witness ==
    /\ focus_call = [op |-> "complete_step", task |-> 1, returned |-> TRUE]
    /\ _tasks[1].steps = <<[id |-> "step1", status |-> "failed"],
                           [id |-> "step2", status |-> "completed"]>>
    /\ _tasks[1].status = "failed"
    /\ _tasks[1].completed_at = now

TerminalStatuses == {"completed", "failed", "cancelled"}

\* C36: once a task is COMPLETED, FAILED or CANCELLED, no call of start_task,
\* complete_step, get_pending_step or cancel_task changes its status or its
\* completed_at.
C36_TerminalIsAbsorbing ==
    [][ \A t \in DOMAIN _tasks :
          _tasks[t].status \in TerminalStatuses =>
             /\ _tasks'[t].status = _tasks[t].status
             /\ _tasks'[t].completed_at = _tasks[t].completed_at ]_vars

\* C37: the on_task_complete callback is called at most once for a task,
\* also when the same step is completed more than once.
C37_TaskCompleteOnce ==
    \A t \in DOMAIN task_complete_calls : task_complete_calls[t] <= 1

\* C38: the number of tasks that are IN_PROGRESS never exceeds
\* max_concurrent_tasks.
C38_ActiveTasksBounded == Cardinality(get_active_tasks) <= max_concurrent_tasks

(***************************************************************************)
(* Properties of the memory cleanup (specification SpecCleanup).           *)
(***************************************************************************)
\* the memory was created within the 7 days before the cleanup
Recent(memory) == memory.timestamp > cleanup_in.current.t - 7

\* C39: the cleanup deletes no memory created within the last 7 days, on
\* whatever day of the month it runs.
C39_RecentMemoriesKept ==
    cleaned => \A memory \in cleanup_in.memories :
                  Recent(memory) => memory \in cleanup_out

(***************************************************************************)
(* Properties of the import check (specification SpecSandbox).             *)
(***************************************************************************)
\* some import statement of the code names a blocked module, at any position
ImportsBlocked(code) ==
    \E i \in DOMAIN code : Imports(code[i]) \cap BLOCKED_MODULES # {}

\* C40: in safe mode, code that imports a blocked module in any import
\* statement, also as a second or later name of a multi-name import, is
\* rejected with success = FALSE and none of it is executed.
C40_BlockedImportRejected ==
    (sandbox_done /\ ~sandbox_in.unsafe_mode /\ ImportsBlocked(sandbox_in.code)) =>
        /\ ~sandbox_out.success
        /\ sandbox_out.executed = 0
        /\ sandbox_out.imported = {}

=============================================================================
